---- MODULE Spec2Model ----
(***************************************************************************)
(* Model of the log dehashing pipeline of linear-inserter (src/index.ts):  *)
(* splitGenerations, the build identifier pattern, getDictionary and       *)
(* dehashLogs.  Text is a sequence of one-character strings, so that the   *)
(* regular expressions, split('\n') and join('\n') are computed character  *)
(* by character as the JavaScript code computes them.                      *)
(***************************************************************************)
EXTENDS Integers, Sequences, FiniteSets, TLC

VARIABLES
    logs,                     \* the argument of dehashLogs
    bucket,                   \* the objects of the dictionary bucket, in listing order
    pc,                       \* position of the invocation
    lines,                    \* splitGenerations: logs.split('\n')
    li,                       \* splitGenerations: index of the line the loop reads next
    currentGeneration,        \* splitGenerations: lines of the open generation
    currentGenerationNumber,  \* splitGenerations: "null", "NaN" or a number
    generations,              \* splitGenerations: result array
    warnings,                 \* lines passed to console.warn('Line outside of generation:')
    gi,                       \* dehashLogs: index of the generation the loop is at
    buildId,                  \* dehashLogs: build identifier of the awaited getDictionary call
    dictCache,                \* dehashLogs: Map buildId -> LogDehash (its dictionary)
    output,                   \* dehashLogs: accumulated output
    calls,                    \* history: the getDictionary calls, in order, with their outcome
    segments,                 \* history: what each processed generation appended
    result,                   \* settlement of the promise of dehashLogs
    util,                     \* a call of an exported utility: function, arguments, result
    req,                      \* the request, the environment and the services it meets
    hpc,                      \* position of the fetch handler
    locals,                   \* locals of createLinearIssue and formatIssueBody
    tasks,                    \* the promises of uploadPromises, one per attachment
    uploads,                  \* assets stored by the PUT requests, in order of completion,
                              \* each with whether the request was answered by then
    issues,                   \* issues created in Linear
    response                  \* the Response the handler returns

vars == <<logs, bucket, pc, lines, li, currentGeneration,
          currentGenerationNumber, generations, warnings, gi, buildId,
          dictCache, output, calls, segments, result, util,
          req, hpc, locals, tasks, uploads, issues, response>>

\* the state outside the dehashLogs invocation
handlerVars == <<req, hpc, locals, tasks, uploads, issues, response>>

restVars == <<util, req, hpc, locals, tasks, uploads, issues, response>>

(***************************************************************************)
(* Bounds of the model.                                                    *)
(***************************************************************************)
\* number of '\n'-separated lines of the inputs built from SplitMenu
MaxSplitLines == 2
\* number of '\n'-joined pieces of the inputs built from LogMenu
MaxLogChunks == 3

(***************************************************************************)
(* Characters.                                                             *)
(***************************************************************************)
NL == "\n"
CR == "\r"
\* U+2028 LINE SEPARATOR, one character
LS == "u2028"

\* ECMAScript LineTerminator: the characters at which ^ and $ match under
\* the m flag (U+2029 is left out of the alphabet of the inputs)
LineTerminator == {NL, CR, LS}

Digit == {"0", "1", "2", "3", "4", "5", "6", "7", "8", "9"}

DigitSeq == <<"0", "1", "2", "3", "4", "5", "6", "7", "8", "9">>

LowerSeq == <<"a", "b", "c", "d", "e", "f", "g", "h", "i", "j", "k", "l", "m",
              "n", "o", "p", "q", "r", "s", "t", "u", "v", "w", "x", "y", "z">>

UpperSeq == <<"A", "B", "C", "D", "E", "F", "G", "H", "I", "J", "K", "L", "M",
              "N", "O", "P", "Q", "R", "S", "T", "U", "V", "W", "X", "Y", "Z">>

Range(s) == {s[i] : i \in 1..Len(s)}

IndexIn(s, c) == CHOOSE i \in 1..Len(s) : s[i] = c

\* String.prototype.toLowerCase, one character
LowerChar(c) == IF c \in Range(UpperSeq) THEN LowerSeq[IndexIn(UpperSeq, c)] ELSE c

\* String.prototype.toLowerCase
toLowerCase(s) == [i \in 1..Len(s) |-> LowerChar(s[i])]

\* the class [a-z0-9] under the i flag
AlnumI(c) == c \in Digit \/ c \in Range(LowerSeq) \/ c \in Range(UpperSeq)

(***************************************************************************)
(* String helpers: split('\n'), join('\n'), startsWith.                    *)
(***************************************************************************)
Drop(s, n) == SubSeq(s, n + 1, Len(s))

\* does the literal lit occur in s at position i
LitAt(s, i, lit) ==
    /\ i >= 1
    /\ i + Len(lit) - 1 <= Len(s)
    /\ \A k \in 1..Len(lit) : s[i + k - 1] = lit[k]

\* the literal compared case-insensitively (i flag)
LitAtI(s, i, lit) ==
    /\ i >= 1
    /\ i + Len(lit) - 1 <= Len(s)
    /\ \A k \in 1..Len(lit) : LowerChar(s[i + k - 1]) = LowerChar(lit[k])

startsWith(s, p) == LitAt(s, 1, p)

RECURSIVE split(_)

\* variant: a trailing empty piece is dropped
split_DropTrailingEmpty(s) ==
    IF \A i \in 1..Len(s) : s[i] # NL
    THEN <<s>>
    ELSE LET i == CHOOSE j \in 1..Len(s) :
                     s[j] = NL /\ \A k \in 1..(j - 1) : s[k] # NL
         IN  IF i = Len(s) THEN <<SubSeq(s, 1, i - 1)>>
             ELSE <<SubSeq(s, 1, i - 1)>> \o split(Drop(s, i))

\* logs.split('\n'): always at least one element, "" gives [""]
split(s) ==
    LET pieces[t \in Seq(STRING)] ==
            IF \A i \in 1..Len(t) : t[i] # NL
            THEN <<t>>
            ELSE LET i == CHOOSE j \in 1..Len(t) :
                             t[j] = NL /\ \A k \in 1..(j - 1) : t[k] # NL
                 IN  <<SubSeq(t, 1, i - 1)>> \o pieces[Drop(t, i)]
    IN  pieces[s]

RECURSIVE join(_)
\* array.join('\n'): [] gives ""
join(ls) ==
    IF Len(ls) = 0 THEN <<>>
    ELSE IF Len(ls) = 1 THEN ls[1]
    ELSE ls[1] \o <<NL>> \o join(Tail(ls))

\* length of the maximal run of characters satisfying the digit class from i
RECURSIVE DigitRun(_, _)
DigitRun(s, i) ==
    IF i <= Len(s) /\ s[i] \in Digit THEN 1 + DigitRun(s, i + 1) ELSE 0

\* length of the maximal run of [a-z0-9] (i flag) from i
RECURSIVE AlnumRun(_, _)
AlnumRun(s, i) ==
    IF i <= Len(s) /\ AlnumI(s[i]) THEN 1 + AlnumRun(s, i + 1) ELSE 0

(***************************************************************************)
(* GENERATION_REGEX = /^=== Generation: ([0-9]+) ===$/gm                   *)
(***************************************************************************)
GenPrefix == <<"=", "=", "=", " ", "G", "e", "n", "e", "r", "a", "t", "i",
               "o", "n", ":", " ">>

GenSuffix == <<" ", "=", "=", "=">>

\* ^ under the m flag: start of input or just after a LineTerminator
BolAt(s, i) == i = 1 \/ (i > 1 /\ i <= Len(s) + 1 /\ s[i - 1] \in LineTerminator)

\* $ under the m flag: end of input or just before a LineTerminator
EolAfter(s, e) == e = Len(s) \/ (e < Len(s) /\ s[e + 1] \in LineTerminator)

\* index of the last character of a match of the pattern starting at i, or 0
GenMatchEnd(s, i) ==
    IF BolAt(s, i) /\ LitAt(s, i, GenPrefix)
    THEN LET p == i + Len(GenPrefix)
             d == DigitRun(s, p)
             e == p + d + Len(GenSuffix) - 1
         IN  IF d >= 1 /\ LitAt(s, p + d, GenSuffix) /\ EolAfter(s, e)
             THEN e ELSE 0
    ELSE 0

RECURSIVE MatchAllFrom(_, _)
\* the successive matches found from lastIndex = pos - 1 (g flag)
MatchAllFrom(s, pos) ==
    IF \A i \in pos..Len(s) : GenMatchEnd(s, i) = 0
    THEN <<>>
    ELSE LET i == CHOOSE j \in pos..Len(s) :
                     GenMatchEnd(s, j) # 0
                     /\ \A k \in pos..(j - 1) : GenMatchEnd(s, k) = 0
         IN  <<SubSeq(s, i, GenMatchEnd(s, i))>>
                 \o MatchAllFrom(s, GenMatchEnd(s, i) + 1)

\* line.match(GENERATION_REGEX): with the g flag the result is the array of
\* the matched substrings (no capture groups), or null; null is <<>> here
matchGeneration(line) == MatchAllFrom(line, 1)

RECURSIVE DigitsValue(_)
DigitsValue(ds) ==
    IF Len(ds) = 0 THEN 0
    ELSE 10 * DigitsValue(SubSeq(ds, 1, Len(ds) - 1))
            + (IndexIn(DigitSeq, ds[Len(ds)]) - 1)

\* parseInt(arr[idx - 1], 10), idx counting from 1: undefined (index past the
\* end of the array) and strings without leading digits give NaN
parseInt(arr, idx) ==
    IF idx > Len(arr) THEN [kind |-> "NaN"]
    ELSE LET d == DigitRun(arr[idx], 1)
         IN  IF d = 0 THEN [kind |-> "NaN"]
             ELSE [kind |-> "number", value |-> DigitsValue(SubSeq(arr[idx], 1, d))]

(***************************************************************************)
(* BUILD_ID_REGEX = /Build ID: ([a-z0-9]+)/i                               *)
(***************************************************************************)
BuildLabel == <<"B", "u", "i", "l", "d", " ", "I", "D", ":", " ">>

\* variant: the label may be followed by any run of blanks
BuildIdAt_OptionalWhitespace(s, i) ==
    /\ LitAtI(s, i, SubSeq(BuildLabel, 1, Len(BuildLabel) - 1))
    /\ \E p \in (i + Len(BuildLabel) - 1)..Len(s) :
          /\ \A q \in (i + Len(BuildLabel) - 1)..(p - 1) : s[q] = " "
          /\ AlnumI(s[p])

BuildIdAt(s, i) == LitAtI(s, i, BuildLabel) /\ AlnumRun(s, i + Len(BuildLabel)) >= 1

\* variant: the capture of the last match
matchBuildId_LastMatch(s) ==
    IF \A i \in 1..Len(s) : ~BuildIdAt(s, i)
    THEN <<>>
    ELSE LET i == CHOOSE j \in 1..Len(s) :
                     BuildIdAt(s, j) /\ \A k \in (j + 1)..Len(s) : ~BuildIdAt(s, k)
             p == i + Len(BuildLabel)
         IN  SubSeq(s, p, p + AlnumRun(s, p) - 1)

\* generation.match(BUILD_ID_REGEX)?.[1]: capture group 1 of the first
\* (leftmost) match, or undefined; undefined is <<>> here (the group is
\* never empty)
matchBuildId(s) ==
    IF \A i \in 1..Len(s) : ~BuildIdAt(s, i)
    THEN <<>>
    ELSE LET i == CHOOSE j \in 1..Len(s) :
                     BuildIdAt(s, j) /\ \A k \in 1..(j - 1) : ~BuildIdAt(s, k)
             p == i + Len(BuildLabel)
         IN  SubSeq(s, p, p + AlnumRun(s, p) - 1)

(***************************************************************************)
(* getDictionary.  An object of the bucket is [Key, Body]; Key is a text   *)
(* or "undefined"; Body is [type |-> "none"] (response without Body) or    *)
(* [type |-> "text", json, entries] where json says what JSON.parse makes  *)
(* of the payload: "unparsable" (throws), "primitive" (null, number,       *)
(* string, boolean) or "object" (typeof 'object') with its entries.        *)
(* A dictionary is the sequence of the <<key, value>> entries of the Map.  *)
(***************************************************************************)
RECURSIVE filterMatches(_, _)
\* variant: the build identifier is compared as captured
filterMatches_CaseSensitive(contents, id) ==
    IF Len(contents) = 0 THEN <<>>
    ELSE LET item == contents[1]
             rest == filterMatches(Tail(contents), id)
         IN  IF item.hasKey /\ startsWith(item.Key, id)
             THEN <<item>> \o rest
             ELSE rest

\* Contents.filter(item => item.Key?.startsWith(buildId.toLowerCase()))
filterMatches(contents, id) ==
    IF Len(contents) = 0 THEN <<>>
    ELSE LET item == contents[1]
             rest == filterMatches(Tail(contents), id)
         IN  IF item.hasKey /\ startsWith(item.Key, toLowerCase(id))
             THEN <<item>> \o rest
             ELSE rest

\* the dictionary getDictionary resolves with, or the error it throws, when
\* both storage calls succeed
getDictionary(contents, id) ==
    IF Len(contents) = 0
    THEN [kind |-> "ok", dict |-> <<>>]
    ELSE LET matches == filterMatches(contents, id)
         IN  IF Len(matches) = 0
             THEN [kind |-> "ok", dict |-> <<>>]
             ELSE LET body == matches[1].Body
                  IN  IF body.type = "none"
                      THEN [kind |-> "throw", error |-> "Failed to get object"]
                      ELSE IF body.json = "unparsable"
                      THEN [kind |-> "throw", error |-> "SyntaxError"]
                      ELSE IF body.json = "primitive"
                      THEN [kind |-> "throw", error |-> "Invalid JSON format"]
                      ELSE [kind |-> "ok", dict |-> body.entries]

(***************************************************************************)
(* LogDehash.dehash of the package @coredevices/logdehash: every           *)
(* occurrence of a key of the dictionary is replaced by its value, scanning*)
(* the line from the left.                                                 *)
(***************************************************************************)
KeysAt(dict, line, i) == {k \in 1..Len(dict) : LitAt(line, i, dict[k][1])}

dehashFrom(dict, line, start) ==
    LET from[i \in Nat] ==
            IF i > Len(line) THEN <<>>
            ELSE LET ks == {k \in KeysAt(dict, line, i) : Len(dict[k][1]) > 0}
                 IN  IF ks = {}
                     THEN <<line[i]>> \o from[i + 1]
                     ELSE LET k == CHOOSE m \in ks : \A n \in ks : m <= n
                          IN  dict[k][2] \o from[i + Len(dict[k][1])]
    IN  from[start]

dehash(dict, line) == dehashFrom(dict, line, 1)

RECURSIVE NonEmpty(_)
NonEmpty(ls) ==
    IF Len(ls) = 0 THEN <<>>
    ELSE IF Len(ls[1]) = 0 THEN NonEmpty(Tail(ls))
    ELSE <<ls[1]>> \o NonEmpty(Tail(ls))

\* variant: empty lines are filtered out before the dehash
dehashGeneration_SkipEmptyLines(dict, generation) ==
    LET ls == NonEmpty(split(generation))
    IN  join([i \in 1..Len(ls) |-> dehash(dict, ls[i])])

\* variant: only the first line handed to the instance is dehashed
dehashGeneration_FirstLineOnly(dict, generation) ==
    LET ls == split(generation)
    IN  join([i \in 1..Len(ls) |-> IF i = 1 THEN dehash(dict, ls[i]) ELSE ls[i]])

\* generation.split('\n').map(line => logDehash.dehash(line)).join('\n')
dehashGeneration(dict, generation) ==
    LET ls == split(generation)
        dehashed[line \in Seq(STRING)] == dehash(dict, line)
    IN  join([i \in 1..Len(ls) |-> dehashed[ls[i]]])

(***************************************************************************)
(* Inputs: log texts and buckets.                                          *)
(***************************************************************************)
Txt_abc123 == <<"a", "b", "c", "1", "2", "3">>
Txt_ABC123 == <<"A", "B", "C", "1", "2", "3">>
Txt_def456 == <<"d", "e", "f", "4", "5", "6">>
Txt_hash1 == <<"h", "a", "s", "h", "1">>
Txt_hash2 == <<"h", "a", "s", "h", "2">>

Gen1Line == GenPrefix \o <<"1">> \o GenSuffix
Gen2Line == GenPrefix \o <<"2">> \o GenSuffix
Gen12Line == GenPrefix \o <<"1", "2">> \o GenSuffix
BuildAbcLine == BuildLabel \o Txt_abc123
BuildAbcUpperLine == toLowerCase(BuildLabel) \o Txt_ABC123
BuildDefLine == BuildLabel \o Txt_def456
HashLine == Txt_hash1 \o <<" ">> \o Txt_hash2
Hash1Line == Txt_hash1
EmptyLine == <<>>

\* lines that vary what surrounds the marker text
SplitMenu ==
    { Gen1Line, Gen12Line, EmptyLine, <<"x">>,
      Gen1Line \o <<CR>>,
      <<"x">> \o Gen1Line,
      Gen1Line \o <<" ">>,
      <<"x", LS>> \o Gen2Line,
      GenPrefix \o GenSuffix }

\* pieces of one or two lines that vary the build identifier of a generation
LogMenu ==
    { Gen1Line,
      join(<<Gen1Line, BuildAbcLine>>),
      join(<<Gen2Line, BuildAbcUpperLine>>),
      join(<<Gen12Line, BuildDefLine>>),
      HashLine }

SeqsUpTo(S, n) == UNION {[1..k -> S] : k \in 1..n}

SplitInputs == {join(ls) : ls \in SeqsUpTo(SplitMenu, MaxSplitLines)}

LogInputs == {join(ls) : ls \in SeqsUpTo(LogMenu, MaxLogChunks)}

\* "=== Generation: 1 ===\nBuild ID: abc123\nhash1 hash2\n
\*  === Generation: 2 ===\nBuild ID: abc123\nhash1\n"
ScenarioLogs ==
    join(<<Gen1Line, BuildAbcLine, HashLine, Gen2Line, BuildAbcLine, Hash1Line,
           EmptyLine>>)

\* an orphan line, a generation with build identifier abc123 and a generation
\* without build identifier
ScenarioMixed ==
    join(<<HashLine, Gen1Line, BuildAbcLine, HashLine, Gen2Line, HashLine>>)

\* a generation with two differing build identifier lines
ScenarioTwoIds ==
    join(<<Gen1Line, BuildAbcLine, BuildDefLine, HashLine>>)

\* 'Some text with Build ID: abc123 in it' of the test, shortened
MidLineText == <<"t", "e", "x", "t", " ">> \o BuildAbcLine \o <<" ", "i", "n">>

\* "Build ID:abc123" and "Build ID:  abc123": no space and two spaces
NoSpaceBuildLine == SubSeq(BuildLabel, 1, Len(BuildLabel) - 1) \o Txt_abc123
TwoSpaceBuildLine == BuildLabel \o <<" ">> \o Txt_abc123

\* generations whose build identifier line varies the spacing and the position
ScenarioSpacing ==
    join(<<Gen1Line, NoSpaceBuildLine, HashLine, Gen2Line, TwoSpaceBuildLine,
           Gen12Line, MidLineText, HashLine>>)

ScenarioInputs == {ScenarioLogs, ScenarioMixed, ScenarioTwoIds, ScenarioSpacing}

HashDict == << <<Txt_hash1, <<"X">> >>, <<Txt_hash2, <<"Y">> >> >>

ObjectBody(entries) == [type |-> "text", json |-> "object", entries |-> entries]

\* abc123 resolves to {hash1: "X", hash2: "Y"} (first of two matching keys),
\* def456 to a payload that is not JSON
BucketDict ==
    << [hasKey |-> TRUE, Key |-> Txt_abc123 \o <<".", "j">>, Body |-> ObjectBody(HashDict)],
       [hasKey |-> TRUE, Key |-> Txt_abc123 \o <<"-", "2">>,
        Body |-> ObjectBody(<< <<Txt_hash1, <<"Z">> >> >>)],
       [hasKey |-> TRUE, Key |-> Txt_def456, Body |-> [type |-> "text", json |-> "unparsable", entries |-> <<>>]] >>

\* abc123 has no object, def456 resolves to the empty object {}
BucketNoAbc ==
    << [hasKey |-> FALSE, Key |-> <<>>, Body |-> ObjectBody(HashDict)],
       [hasKey |-> TRUE, Key |-> Txt_def456, Body |-> ObjectBody(<<>>)] >>

\* abc123 resolves to an object without Body, def456 to the JSON text null
BucketBroken ==
    << [hasKey |-> TRUE, Key |-> Txt_abc123, Body |-> [type |-> "none"]],
       [hasKey |-> TRUE, Key |-> Txt_def456, Body |-> [type |-> "text", json |-> "primitive", entries |-> <<>>]] >>

BucketEmpty == <<>>

Buckets == {BucketDict, BucketNoAbc, BucketBroken, BucketEmpty}

(***************************************************************************)
(* The invocation dehashLogs(bucketConfig, logs).                          *)
(***************************************************************************)
Null == [kind |-> "null"]

\* no utility call
UtilIdle == util = [fn |-> "none"]

\* no request
HandlerIdle ==
    /\ req = [method |-> "none"]
    /\ hpc = "idle"
    /\ locals = [title |-> <<>>]
    /\ tasks = <<>>
    /\ uploads = <<>>
    /\ issues = <<>>
    /\ response = [status |-> 0]

RestIdle == UtilIdle /\ HandlerIdle

Init ==
    /\ RestIdle
    /\ \/ logs \in SplitInputs /\ bucket = BucketEmpty
       \/ logs \in LogInputs /\ bucket \in Buckets \ {BucketEmpty}
       \/ logs \in ScenarioInputs /\ bucket \in Buckets
    /\ pc = "start"
    /\ lines = <<>>
    /\ li = 1
    /\ currentGeneration = <<>>
    /\ currentGenerationNumber = Null
    /\ generations = <<>>
    /\ warnings = <<>>
    /\ gi = 1
    /\ buildId = <<>>
    /\ dictCache = <<>>
    /\ output = <<>>
    /\ calls = <<>>
    /\ segments = <<>>
    /\ result = [kind |-> "pending"]

splitVars == <<lines, li, currentGeneration, currentGenerationNumber,
               generations, warnings>>

loopVars == <<gi, buildId, dictCache, output, calls, segments, result>>

\* splitGenerations, up to the for loop
SplitStart ==
    /\ pc = "start"
    /\ lines' = split(logs)
    /\ li' = 1
    /\ currentGeneration' = <<>>
    /\ currentGenerationNumber' = Null
    /\ generations' = <<>>
    /\ pc' = "lines"
    /\ UNCHANGED <<logs, bucket, warnings>>
    /\ UNCHANGED loopVars
    /\ UNCHANGED restVars

\* variant: the open generation is not pushed when the next marker is read
ReadMarkerLine_NoPush ==
    /\ pc = "lines"
    /\ li <= Len(lines)
    /\ LET line == lines[li]
           match == matchGeneration(line)
       IN  /\ match # <<>>
           /\ currentGenerationNumber' = parseInt(match, 2)
           /\ currentGeneration' = <<line>>
    /\ li' = li + 1
    /\ UNCHANGED <<logs, bucket, pc, lines, generations, warnings>>
    /\ UNCHANGED loopVars
    /\ UNCHANGED restVars

\* variant: the line buffer is not reset when a marker is read
ReadMarkerLine_NoReset ==
    /\ pc = "lines"
    /\ li <= Len(lines)
    /\ LET line == lines[li]
           match == matchGeneration(line)
       IN  /\ match # <<>>
           /\ generations' = IF currentGenerationNumber # Null
                             THEN Append(generations, join(currentGeneration))
                             ELSE generations
           /\ currentGenerationNumber' = parseInt(match, 2)
           /\ currentGeneration' = Append(currentGeneration, line)
    /\ li' = li + 1
    /\ UNCHANGED <<logs, bucket, pc, lines, warnings>>
    /\ UNCHANGED loopVars
    /\ UNCHANGED restVars

\* loop body, branch if (match)
ReadMarkerLine ==
    /\ pc = "lines"
    /\ li <= Len(lines)
    /\ LET line == lines[li]
           match == matchGeneration(line)
       IN  /\ match # <<>>
           /\ generations' = IF currentGenerationNumber # Null
                             THEN Append(generations, join(currentGeneration))
                             ELSE generations
           /\ currentGenerationNumber' = parseInt(match, 2)
           /\ currentGeneration' = <<line>>
    /\ li' = li + 1
    /\ UNCHANGED <<logs, bucket, pc, lines, warnings>>
    /\ UNCHANGED loopVars
    /\ UNCHANGED restVars

\* loop body, branch else if (currentGenerationNumber !== null)
ReadGenerationLine ==
    /\ pc = "lines"
    /\ li <= Len(lines)
    /\ matchGeneration(lines[li]) = <<>>
    /\ currentGenerationNumber # Null
    /\ currentGeneration' = Append(currentGeneration, lines[li])
    /\ li' = li + 1
    /\ UNCHANGED <<logs, bucket, pc, lines, currentGenerationNumber,
                   generations, warnings>>
    /\ UNCHANGED loopVars
    /\ UNCHANGED restVars

\* variant: a line before the first marker is buffered as well
ReadOrphanLine_Buffered ==
    /\ pc = "lines"
    /\ li <= Len(lines)
    /\ matchGeneration(lines[li]) = <<>>
    /\ currentGenerationNumber = Null
    /\ warnings' = Append(warnings, lines[li])
    /\ currentGeneration' = Append(currentGeneration, lines[li])
    /\ li' = li + 1
    /\ UNCHANGED <<logs, bucket, pc, lines, currentGenerationNumber, generations>>
    /\ UNCHANGED loopVars
    /\ UNCHANGED restVars

\* variant: the orphan line is not consumed, the loop stays on it
ReadOrphanLine_NotConsumed ==
    /\ pc = "lines"
    /\ li <= Len(lines)
    /\ matchGeneration(lines[li]) = <<>>
    /\ currentGenerationNumber = Null
    /\ UNCHANGED vars

\* loop body, branch else
ReadOrphanLine ==
    /\ pc = "lines"
    /\ li <= Len(lines)
    /\ matchGeneration(lines[li]) = <<>>
    /\ currentGenerationNumber = Null
    /\ warnings' = Append(warnings, lines[li])
    /\ li' = li + 1
    /\ UNCHANGED <<logs, bucket, pc, lines, currentGeneration,
                   currentGenerationNumber, generations>>
    /\ UNCHANGED loopVars
    /\ UNCHANGED restVars

\* variant: the open generation is not flushed at the end of input
SplitFlush_NoFlush ==
    /\ pc = "lines"
    /\ li > Len(lines)
    /\ pc' = "generations"
    /\ UNCHANGED <<logs, bucket, lines, li, currentGeneration,
                   currentGenerationNumber, generations, warnings>>
    /\ UNCHANGED loopVars
    /\ UNCHANGED restVars

\* after the loop: flush the open generation and return to dehashLogs
SplitFlush ==
    /\ pc = "lines"
    /\ li > Len(lines)
    /\ generations' = IF Len(currentGeneration) > 0
                      THEN Append(generations, join(currentGeneration))
                      ELSE generations
    /\ pc' = "generations"
    /\ UNCHANGED <<logs, bucket, lines, li, currentGeneration,
                   currentGenerationNumber, warnings>>
    /\ UNCHANGED loopVars
    /\ UNCHANGED restVars

Generation == generations[gi]

Segment(how, text) ==
    [generation |-> Generation, how |-> how, appended |-> text]

\* history: the awaited getDictionary call settles
SettleCall(outcome) == [calls EXCEPT ![Len(calls)].outcome = outcome]

NextGeneration(how, text) ==
    /\ output' = output \o text
    /\ segments' = Append(segments, Segment(how, text))
    /\ gi' = gi + 1
    /\ pc' = "generations"

\* variant: the key is the lowercased build identifier
cachePut_Lowercased(cache, id, logDehash) ==
    [k \in DOMAIN cache \cup {toLowerCase(id)} |->
        IF k = toLowerCase(id) THEN logDehash ELSE cache[k]]

\* variant: the loaded dictionary is not stored
cachePut_NotStored(cache, id, logDehash) == cache

cachePut(cache, id, logDehash) ==
    [k \in DOMAIN cache \cup {id} |-> IF k = id THEN logDehash ELSE cache[k]]

\* variant: the generation is appended without the newline
NoBuildId_NoNewline ==
    /\ pc = "generations"
    /\ gi <= Len(generations)
    /\ matchBuildId(Generation) = <<>>
    /\ NextGeneration("noBuildId", Generation)
    /\ UNCHANGED <<logs, bucket, buildId, dictCache, calls, result>>
    /\ UNCHANGED splitVars
    /\ UNCHANGED restVars

\* loop body of dehashLogs, branch if (!buildId)
NoBuildId ==
    /\ pc = "generations"
    /\ gi <= Len(generations)
    /\ matchBuildId(Generation) = <<>>
    /\ NextGeneration("noBuildId", Generation \o <<NL>>)
    /\ UNCHANGED <<logs, bucket, buildId, dictCache, calls, result>>
    /\ UNCHANGED splitVars
    /\ UNCHANGED restVars

\* loop body, branch if (dictCache.has(buildId)), then the dehash of the lines
UseCachedDictionary ==
    /\ pc = "generations"
    /\ gi <= Len(generations)
    /\ \E id \in {matchBuildId(Generation)} :
           /\ id # <<>>
           /\ id \in DOMAIN dictCache
           /\ NextGeneration("cached",
                  dehashGeneration(dictCache[id], Generation) \o <<NL>>)
    /\ UNCHANGED <<logs, bucket, buildId, dictCache, calls, result>>
    /\ UNCHANGED splitVars
    /\ UNCHANGED restVars

\* variant: the call is started but not awaited, the loop moves on
CallGetDictionary_NotAwaited ==
    /\ pc = "generations"
    /\ gi <= Len(generations)
    /\ LET id == matchBuildId(Generation)
       IN  /\ id # <<>>
           /\ id \notin DOMAIN dictCache
           /\ buildId' = id
           /\ calls' = Append(calls, [buildId |-> id, generation |-> gi,
                                      outcome |-> "pending"])
    /\ gi' = gi + 1
    /\ UNCHANGED <<logs, bucket, pc, dictCache, output, segments, result>>
    /\ UNCHANGED splitVars
    /\ UNCHANGED restVars

\* loop body, else branch: await getDictionary(bucketConfig, buildId)
CallGetDictionary ==
    /\ pc = "generations"
    /\ gi <= Len(generations)
    /\ LET id == matchBuildId(Generation)
       IN  /\ id # <<>>
           /\ id \notin DOMAIN dictCache
           /\ buildId' = id
           /\ calls' = Append(calls, [buildId |-> id, generation |-> gi,
                                      outcome |-> "pending"])
    /\ pc' = "getDictionary"
    /\ UNCHANGED <<logs, bucket, gi, dictCache, output, segments, result>>
    /\ UNCHANGED splitVars
    /\ UNCHANGED restVars

\* variant: the empty dictionary is cached like a loaded one
DictionaryEmpty_NegativeCache ==
    /\ pc = "getDictionary"
    /\ LET r == getDictionary(bucket, buildId)
       IN  /\ r.kind = "ok"
           /\ Len(r.dict) = 0
           /\ dictCache' = cachePut(dictCache, buildId, r.dict)
    /\ NextGeneration("noDictionary", Generation \o <<NL>>)
    /\ calls' = SettleCall("empty")
    /\ UNCHANGED <<logs, bucket, buildId, result>>
    /\ UNCHANGED splitVars
    /\ UNCHANGED restVars

\* getDictionary resolves with an empty Map: if (dict.size === 0)
DictionaryEmpty ==
    /\ pc = "getDictionary"
    /\ LET r == getDictionary(bucket, buildId)
       IN  /\ r.kind = "ok"
           /\ Len(r.dict) = 0
    /\ NextGeneration("noDictionary", Generation \o <<NL>>)
    /\ calls' = SettleCall("empty")
    /\ UNCHANGED <<logs, bucket, buildId, dictCache, result>>
    /\ UNCHANGED splitVars
    /\ UNCHANGED restVars

\* getDictionary resolves with entries: new LogDehash([dict]), dictCache.set,
\* then the dehash of the lines
DictionaryLoaded ==
    /\ pc = "getDictionary"
    /\ LET r == getDictionary(bucket, buildId)
       IN  /\ r.kind = "ok"
           /\ Len(r.dict) > 0
           /\ dictCache' = cachePut(dictCache, buildId, r.dict)
           /\ NextGeneration("loaded",
                  dehashGeneration(r.dict, Generation) \o <<NL>>)
    /\ calls' = SettleCall("loaded")
    /\ UNCHANGED <<logs, bucket, buildId, result>>
    /\ UNCHANGED splitVars
    /\ UNCHANGED restVars

\* the exception leaves dehashLogs: its promise rejects
Reject ==
    /\ pc' = "failed"
    /\ result' = [kind |-> "rejected"]
    /\ calls' = SettleCall("threw")
    /\ UNCHANGED <<logs, bucket, gi, buildId, dictCache, output, segments>>
    /\ UNCHANGED splitVars
    /\ UNCHANGED restVars

\* variant: the error is caught and the generation passed through
DictionaryThrows_Caught ==
    /\ pc = "getDictionary"
    /\ getDictionary(bucket, buildId).kind = "throw"
    /\ NextGeneration("noDictionary", Generation \o <<NL>>)
    /\ calls' = SettleCall("threw")
    /\ UNCHANGED <<logs, bucket, buildId, dictCache, result>>
    /\ UNCHANGED splitVars
    /\ UNCHANGED restVars

\* getDictionary throws on the object it found: Body missing, JSON.parse
\* throws, payload not typeof 'object'
DictionaryThrows ==
    /\ pc = "getDictionary"
    /\ getDictionary(bucket, buildId).kind = "throw"
    /\ Reject

\* s3Client.send rejects (list or get): the storage call fails
StorageCallThrows ==
    /\ pc = "getDictionary"
    /\ Reject

\* after the loop: return output
ReturnOutput ==
    /\ pc = "generations"
    /\ gi > Len(generations)
    /\ pc' = "done"
    /\ result' = [kind |-> "returned", text |-> output]
    /\ UNCHANGED <<logs, bucket, gi, buildId, dictCache, output, calls, segments>>
    /\ UNCHANGED splitVars
    /\ UNCHANGED restVars

Next ==
    \/ SplitStart
    \/ ReadMarkerLine
    \/ ReadGenerationLine
    \/ ReadOrphanLine
    \/ SplitFlush
    \/ NoBuildId
    \/ UseCachedDictionary
    \/ CallGetDictionary
    \/ DictionaryEmpty
    \/ DictionaryLoaded
    \/ DictionaryThrows
    \/ StorageCallThrows
    \/ ReturnOutput

Spec == Init /\ [][Next]_vars

(***************************************************************************)
(* Properties.                                                             *)
(***************************************************************************)
Returned == pc = "done" /\ result.kind = "returned"

ScenarioExpected ==
    join(<<Gen1Line, BuildAbcLine, <<"X", " ", "Y">>, Gen2Line, BuildAbcLine,
           <<"X">>, EmptyLine>>)

ScenarioRun == logs = ScenarioLogs /\ bucket = BucketDict /\ Returned

\* C1 (as stated): for the scenario input and a provider that answers abc123
\* with {hash1: "X", hash2: "Y"}, dehashLogs returns exactly the scenario's
\* expected text, ending in a single newline, after exactly one provider call.
C1_ScenarioAsStated ==
    ScenarioRun => result.text = ScenarioExpected /\ Len(calls) = 1

\* C1 (amended): for the scenario input dehashLogs returns the expected text
\* followed by one more newline (the empty last line of the input belongs to
\* generation 2 and the generation's newline is appended after it), after
\* exactly one provider call.
C1_ScenarioExtraNewline ==
    ScenarioRun => result.text = ScenarioExpected \o <<NL>> /\ Len(calls) = 1

C1_Witness == ScenarioRun /\ Len(segments) = 2

\* C2 (as stated): within one invocation getDictionary is called at most once
\* per distinct build identifier, whatever the provider answers.
C2_OneCallPerBuildId ==
    \A i, j \in DOMAIN calls :
        calls[i].buildId = calls[j].buildId => i = j

\* C2 (amended): a build identifier is fetched again only if every earlier
\* fetch of it answered with an empty dictionary; once a non-empty dictionary
\* has been loaded for an identifier no further call is made for it, so two
\* generations sharing such an identifier cause exactly one call.
C2_OneCallPerLoadedBuildId ==
    \A i, j \in DOMAIN calls :
        (i < j /\ calls[i].buildId = calls[j].buildId)
            => calls[i].outcome = "empty"

C2_Witness ==
    /\ Returned
    /\ Len(calls) = 1
    /\ calls[1].outcome = "loaded"
    /\ \E i, j \in DOMAIN segments :
          /\ i < j
          /\ matchBuildId(segments[i].generation) = calls[1].buildId
          /\ matchBuildId(segments[j].generation) = calls[1].buildId

\* identifiers of the processed generations whose fetch loaded a dictionary
LoadedIds ==
    {calls[c].buildId : c \in {d \in DOMAIN calls : calls[d].outcome = "loaded"}}

C3_CacheHoldsLoadedOnly ==
    /\ DOMAIN dictCache = LoadedIds
    /\ \A id \in DOMAIN dictCache : Len(dictCache[id]) > 0

C3_Step ==
    \* an empty answer leaves the cache as it is
    /\ (pc = "getDictionary" /\ pc' = "generations"
            /\ getDictionary(bucket, buildId) = [kind |-> "ok", dict |-> <<>>])
         => dictCache' = dictCache
    \* a generation whose identifier was answered empty before is fetched again
    /\ (/\ pc = "generations"
        /\ gi <= Len(generations)
        /\ \E c \in DOMAIN calls :
              /\ calls[c].outcome = "empty"
              /\ calls[c].buildId = matchBuildId(Generation))
         => (Len(calls') = Len(calls) + 1
                /\ calls'[Len(calls')].buildId = matchBuildId(Generation))
    \* entries are never removed or replaced
    /\ \A id \in DOMAIN dictCache :
          id \in DOMAIN dictCache' /\ dictCache'[id] = dictCache[id]

\* C3: an empty dictionary is not inserted into dictCache, so every later
\* generation with that identifier causes another getDictionary call; the
\* cache holds exactly the identifiers of processed generations whose fetched
\* dictionary was non-empty, and an entry is never removed or replaced.
C3_NoNegativeCaching == []C3_CacheHoldsLoadedOnly /\ [][C3_Step]_vars

C3_Witness ==
    /\ Len(calls) >= 2
    /\ calls[1].outcome = "empty"
    /\ calls[2].outcome = "empty"
    /\ calls[1].buildId = calls[2].buildId
    /\ dictCache = <<>>

\* generation i is passed through: it has no build identifier, or the call
\* made for it answered with an empty dictionary
PassedThrough(i) ==
    \/ matchBuildId(generations[i]) = <<>>
    \/ \E c \in DOMAIN calls :
          calls[c].generation = i /\ calls[c].outcome = "empty"

RECURSIVE ConcatAppended(_, _)
ConcatAppended(segs, n) ==
    IF n = 0 THEN <<>> ELSE ConcatAppended(segs, n - 1) \o segs[n].appended

\* C4: a generation without build identifier, or whose identifier is answered
\* with an empty dictionary, contributes its text unchanged plus one newline;
\* the invocation has not failed at that point and the loop goes on with the
\* next generation.
C4_PassThrough ==
    /\ Len(segments) = gi - 1
    /\ output = ConcatAppended(segments, Len(segments))
    /\ \A i \in DOMAIN segments :
          /\ segments[i].generation = generations[i]
          /\ PassedThrough(i) =>
                /\ segments[i].appended = generations[i] \o <<NL>>
                /\ (pc = "failed" => \E c \in DOMAIN calls :
                        calls[c].generation > i /\ calls[c].outcome = "threw")
    /\ Returned => Len(segments) = Len(generations)

C4_Witness ==
    /\ Returned
    /\ Len(segments) = 3
    /\ matchBuildId(generations[1]) = <<>>
    /\ \E c \in DOMAIN calls : calls[c].generation = 2 /\ calls[c].outcome = "empty"
    /\ segments[1].appended = generations[1] \o <<NL>>
    /\ segments[2].appended = generations[2] \o <<NL>>

\* C5: when a getDictionary call throws (storage call fails, Body missing,
\* payload not parsable or not an object) dehashLogs rejects and returns no
\* text, whatever output earlier generations had accumulated.
C5_HardFailureRejects ==
    (\E c \in DOMAIN calls : calls[c].outcome = "threw")
        => pc = "failed" /\ result = [kind |-> "rejected"]

C5_Witness ==
    /\ pc = "failed"
    /\ Len(segments) >= 1
    /\ output # <<>>
    /\ getDictionary(bucket, buildId).kind = "throw"

(***************************************************************************)
(* Properties of splitGenerations and of the assembled output.             *)
(***************************************************************************)
SplitDone == pc \notin {"start", "lines"}

\* the line is one splitGenerations recognizes as a generation marker
IsMarkerLine(line) == matchGeneration(line) # <<>>

MarkerIdx == {i \in DOMAIN lines : IsMarkerLine(lines[i])}

\* C6: splitGenerations returns as many elements as the input has marker
\* lines, also with consecutive markers or orphan lines before the first
\* marker; without marker line (the empty string included) it returns [].
C6_OneElementPerMarker ==
    SplitDone => /\ lines = split(logs)
                 /\ Len(generations) = Cardinality(MarkerIdx)

C6_Witness ==
    /\ SplitDone
    /\ Len(lines) = 3
    /\ ~IsMarkerLine(lines[1])
    /\ IsMarkerLine(lines[2])
    /\ IsMarkerLine(lines[3])
    /\ Len(generations) = 2

RECURSIVE FlattenLines(_)
\* the elements split back into lines, concatenated in order
FlattenLines(gens) ==
    IF Len(gens) = 0 THEN <<>>
    ELSE split(gens[1]) \o FlattenLines(Tail(gens))

FirstMarker == CHOOSE i \in MarkerIdx : \A j \in MarkerIdx : i <= j

\* C7: the returned elements, split back into lines and concatenated, are the
\* input's lines from the first marker line to the end of input; every element
\* starts with a marker line and contains no other marker line.
C7_ElementsPartitionInput ==
    SplitDone =>
        /\ FlattenLines(generations) =
              IF MarkerIdx = {} THEN <<>>
              ELSE SubSeq(lines, FirstMarker, Len(lines))
        /\ \A g \in DOMAIN generations :
              LET ls == split(generations[g])
              IN  /\ IsMarkerLine(ls[1])
                  /\ \A k \in 2..Len(ls) : ~IsMarkerLine(ls[k])

C7_Witness ==
    /\ SplitDone
    /\ Len(lines) = 4
    /\ MarkerIdx = {2, 3}
    /\ generations = <<lines[2], join(<<lines[3], lines[4]>>)>>

\* the entire line is `=== Generation: <one or more digits> ===`
WholeLineMarker(line) ==
    LET n == Len(line) - Len(GenPrefix) - Len(GenSuffix)
    IN  /\ n >= 1
        /\ LitAt(line, 1, GenPrefix)
        /\ \A k \in 1..n : line[Len(GenPrefix) + k] \in Digit
        /\ LitAt(line, Len(GenPrefix) + n + 1, GenSuffix)

\* C8: splitGenerations opens a generation at a line if and only if the entire
\* line equals `=== Generation: <digits> ===`; a line with any other character
\* before or after the marker text, a carriage return included, is not a marker.
C8_WholeLineOnly ==
    [][(pc = "lines" /\ li <= Len(lines))
         => ((currentGeneration' = <<lines[li]>>) <=> WholeLineMarker(lines[li]))]_vars

\* generation the i-th input line lies in, 0 for a line before the first marker
GenOfLine(i) == Cardinality({k \in 1..i : IsMarkerLine(lines[k])})

\* the dictionary the provider holds for the generation's build identifier
DictOfGeneration(g) ==
    LET id == matchBuildId(generations[g])
    IN  IF id = <<>> THEN <<>>
        ELSE LET r == getDictionary(bucket, id)
             IN  IF r.kind = "ok" THEN r.dict ELSE <<>>

\* the output line of an input line that lies in generation g
ImageIn(g, line) ==
    LET dict == DictOfGeneration(g)
    IN  IF Len(dict) = 0 THEN line ELSE dehash(dict, line)

LineImage(i) == ImageIn(GenOfLine(i), lines[i])

RECURSIVE ExpectedOutput(_, _, _)
\* one newline-terminated image per input line, from line i on, that lies in
\* one of the generations 1..upto; g is the generation of line i - 1
ExpectedOutput(i, g, upto) ==
    IF i > Len(lines) THEN <<>>
    ELSE LET h == IF IsMarkerLine(lines[i]) THEN g + 1 ELSE g
         IN  (IF h \in 1..upto THEN ImageIn(h, lines[i]) \o <<NL>> ELSE <<>>)
                 \o ExpectedOutput(i + 1, h, upto)

\* C9: the output is one newline-terminated line per input line inside a
\* recognized generation, in input order, each the dehash or the identity of
\* its input line; lines before the first marker contribute nothing.
C9_OneOutputLinePerInputLine ==
    /\ SplitDone => output = ExpectedOutput(1, 0, gi - 1)
    /\ Returned => /\ result.text = output
                   /\ gi - 1 = Len(generations)
                   /\ Len(split(result.text)) =
                         1 + Cardinality({i \in DOMAIN lines : GenOfLine(i) > 0})

C9_Witness ==
    /\ Returned
    /\ GenOfLine(1) = 0
    /\ Len(segments) = 2
    /\ segments[1].how = "loaded"
    /\ segments[2].how = "noBuildId"
    /\ \E i \in DOMAIN lines : GenOfLine(i) = 1 /\ LineImage(i) # lines[i]

\* C10: for an input without any generation marker dehashLogs returns the
\* empty text without calling the provider, and splitGenerations has emitted
\* one diagnostic per (orphan) line.
C10_NoMarkerNoOutput ==
    (Returned /\ MarkerIdx = {})
        => /\ result.text = <<>>
           /\ calls = <<>>
           /\ warnings = split(logs)

C10_Witness ==
    /\ Returned
    /\ MarkerIdx = {}
    /\ Len(lines) = 2
    /\ Len(warnings) = 2
    /\ \E i \in DOMAIN lines : startsWith(lines[i], GenPrefix)

(***************************************************************************)
(* The exported utilities of utils.ts (splitGenerations is the same        *)
(* function as above) and the dehasher, called on their own.               *)
(***************************************************************************)
\* extractBuildId of utils.ts: the match is computed and null is returned
extractBuildId(text) ==
    LET match == matchBuildId(text)
    IN  Null

\* 'Some text without build identifier' of the test, shortened
NoIdText == <<"n", "o", " ", "b", "u", "i", "l", "d">>

UtilTexts == LogInputs \cup SplitInputs \cup ScenarioInputs \cup {MidLineText, NoIdText}

UtilLines == UNION {Range(split(t)) : t \in LogMenu \cup SplitMenu \cup {MidLineText}}

\* a dictionary none of whose keys occurs in the texts
OtherDict == << << <<"z", "z">>, <<"Q">> >> >>

UtilDicts == {<<>>, HashDict, OtherDict}

PipelineIdle ==
    /\ logs = <<>>
    /\ bucket = BucketEmpty
    /\ pc = "idle"
    /\ lines = <<>>
    /\ li = 1
    /\ currentGeneration = <<>>
    /\ currentGenerationNumber = Null
    /\ generations = <<>>
    /\ warnings = <<>>
    /\ gi = 1
    /\ buildId = <<>>
    /\ dictCache = <<>>
    /\ output = <<>>
    /\ calls = <<>>
    /\ segments = <<>>
    /\ result = [kind |-> "pending"]

pipelineVars == <<logs, bucket, pc, lines, li, currentGeneration,
                  currentGenerationNumber, generations, warnings, gi, buildId,
                  dictCache, output, calls, segments, result>>

UtilCall(fn, text, dict) ==
    [fn |-> fn, text |-> text, dict |-> dict, stage |-> "called",
     ret |-> Null, again |-> Null]

UtilInit ==
    /\ PipelineIdle
    /\ HandlerIdle
    /\ \/ \E t \in UtilTexts : util = UtilCall("extractBuildId", t, <<>>)
       \/ \E l \in UtilLines, d \in UtilDicts : util = UtilCall("dehash", l, d)
       \/ \E t \in UtilTexts, d \in UtilDicts : util = UtilCall("dehashGeneration", t, d)

\* extractBuildId(text)
CallExtractBuildId ==
    /\ util.fn = "extractBuildId"
    /\ util.stage = "called"
    /\ util' = [util EXCEPT !.ret = extractBuildId(util.text), !.stage = "returned"]
    /\ UNCHANGED pipelineVars
    /\ UNCHANGED handlerVars

\* new LogDehash([dict]).dehash(line)
CallDehash ==
    /\ util.fn = "dehash"
    /\ util.stage = "called"
    /\ util' = [util EXCEPT !.ret = dehash(util.dict, util.text), !.stage = "once"]
    /\ UNCHANGED pipelineVars
    /\ UNCHANGED handlerVars

\* dehash applied to the result of the first call
CallDehashAgain ==
    /\ util.fn = "dehash"
    /\ util.stage = "once"
    /\ util' = [util EXCEPT !.again = dehash(util.dict, util.ret), !.stage = "twice"]
    /\ UNCHANGED pipelineVars
    /\ UNCHANGED handlerVars

\* the map over the lines of a generation in dehashLogs, one LogDehash instance
CallDehashGeneration ==
    /\ util.fn = "dehashGeneration"
    /\ util.stage = "called"
    /\ util' = [util EXCEPT !.ret = dehashGeneration(util.dict, util.text),
                            !.stage = "returned"]
    /\ UNCHANGED pipelineVars
    /\ UNCHANGED handlerVars

UtilNext ==
    \/ CallExtractBuildId
    \/ CallDehash
    \/ CallDehashAgain
    \/ CallDehashGeneration

UtilSpec == UtilInit /\ [][UtilNext]_vars

\* capture of the leftmost match of the build identifier pattern, <<>> if none
FirstBuildId(text) ==
    LET starts == {i \in 1..Len(text) :
                     /\ LitAtI(text, i, BuildLabel)
                     /\ i + Len(BuildLabel) <= Len(text)
                     /\ AlnumI(text[i + Len(BuildLabel)])}
    IN  IF starts = {} THEN <<>>
        ELSE LET i == CHOOSE j \in starts : \A k \in starts : j <= k
                 p == i + Len(BuildLabel)
                 e == CHOOSE n \in p..Len(text) :
                         /\ \A m \in p..n : AlnumI(text[m])
                         /\ (n = Len(text) \/ ~AlnumI(text[n + 1]))
             IN  SubSeq(text, p, e)

\* C11: extractBuildId(text) returns the token captured by the first match of
\* the build identifier pattern, casing preserved, and null exactly when the
\* text contains no match.
C11_ExtractReturnsFirstMatch ==
    (util.fn = "extractBuildId" /\ util.stage = "returned")
        => util.ret = IF FirstBuildId(util.text) = <<>> THEN Null
                      ELSE [kind |-> "string", value |-> FirstBuildId(util.text)]

\* a key of the dictionary occurs in the line
KeyOccurs(dict, line) ==
    \E k \in 1..Len(dict), i \in 1..Len(line) :
        Len(dict[k][1]) > 0 /\ LitAt(line, i, dict[k][1])

WhiteSpace == {" ", "\t"}

LabelOnly == <<"B", "u", "i", "l", "d", " ", "I", "D", ":">>

OptionalWhitespaceMatch(text) ==
    \E i \in 1..Len(text) :
        /\ LitAtI(text, i, LabelOnly)
        /\ \E p \in (i + Len(LabelOnly))..Len(text) :
              /\ \A q \in (i + Len(LabelOnly))..(p - 1) : text[q] \in WhiteSpace
              /\ AlnumI(text[p])

\* 'Build ID:' (any casing), exactly one space, then an alphanumeric character
OneSpaceMatch(text) ==
    \E i \in 1..Len(text) :
        /\ LitAtI(text, i, LabelOnly)
        /\ i + Len(LabelOnly) + 1 <= Len(text)
        /\ text[i + Len(LabelOnly)] = " "
        /\ AlnumI(text[i + Len(LabelOnly) + 1])

\* C12 as stated: a generation is treated as having a build identifier
\* exactly when it contains 'Build ID:' (any casing) followed by zero, one or
\* several whitespace characters and an alphanumeric character, anywhere.
C12_OptionalWhitespace ==
    \A k \in 1..Len(segments) :
        (segments[k].how # "noBuildId")
            <=> OptionalWhitespaceMatch(segments[k].generation)

\* C12 amended: a generation is treated as having a build identifier exactly
\* when it contains 'Build ID:' (any casing) followed by exactly one space
\* and an alphanumeric character, anywhere in its text; with no space or
\* with two spaces after the colon it has none.
C12_ExactlyOneSpace ==
    /\ \A k \in 1..Len(segments) :
          (segments[k].how # "noBuildId") <=> OneSpaceMatch(segments[k].generation)
    /\ \A k \in 1..Len(calls) :
          OneSpaceMatch(generations[calls[k].generation])

C12_Witness ==
    /\ logs = ScenarioSpacing
    /\ bucket = BucketDict
    /\ Returned
    /\ Len(segments) = 3
    /\ segments[1].how = "noBuildId"
    /\ segments[2].how = "noBuildId"
    /\ segments[3].how = "loaded"
    /\ calls[1].buildId = Txt_abc123

\* the dictionary getDictionary resolves for a build identifier
DictFor(id) == getDictionary(bucket, id).dict

\* C13: every generation is processed under the first build identifier of its
\* full text and no other: one provider call at most per generation, made for
\* that identifier; the lines of a generation with several identifiers are
\* all dehashed with the dictionary of the first; a generation without
\* identifier is passed through, whatever the cache holds from earlier ones.
C13_FirstBuildIdPerGeneration ==
    /\ \A k \in 1..Len(calls) :
          /\ calls[k].buildId = FirstBuildId(generations[calls[k].generation])
          /\ \A j \in 1..Len(calls) :
                calls[j].generation = calls[k].generation => j = k
    /\ \A k \in 1..Len(segments) :
          LET g == segments[k].generation
              id == FirstBuildId(g)
          IN  /\ id = <<>> => /\ segments[k].how = "noBuildId"
                              /\ segments[k].appended = g \o <<NL>>
              /\ segments[k].how \in {"cached", "loaded"} =>
                    /\ id # <<>>
                    /\ segments[k].appended =
                         join([n \in 1..Len(split(g)) |->
                                  dehash(DictFor(id), split(g)[n])]) \o <<NL>>

C13_Witness ==
    /\ logs = ScenarioTwoIds
    /\ bucket = BucketDict
    /\ Returned
    /\ Len(calls) = 1
    /\ calls[1].buildId = Txt_abc123
    /\ segments[1].how = "loaded"

\* a generation without build identifier after one whose dictionary is cached
C13_WitnessNoCarryOver ==
    /\ logs = ScenarioMixed
    /\ bucket = BucketDict
    /\ Returned
    /\ Txt_abc123 \in DOMAIN dictCache
    /\ segments[2].how = "noBuildId"

(***************************************************************************)
(* The request handler: fetch, createLinearIssue, formatIssueBody and      *)
(* uploadAttachment.  Every attachment has its own promise, and every      *)
(* watch-logs attachment its own dehashLogs invocation; an invocation is   *)
(* the record of its locals, advanced from one await to the next.          *)
(***************************************************************************)
RECURSIVE splitFrom(_, _, _, _, _)
\* the for loop of splitGenerations from line i on, and the final push
splitFrom(ls, i, current, number, gens) ==
    IF i > Len(ls)
    THEN IF Len(current) > 0 THEN Append(gens, join(current)) ELSE gens
    ELSE LET match == matchGeneration(ls[i])
         IN  IF match # <<>>
             THEN splitFrom(ls, i + 1, <<ls[i]>>, parseInt(match, 2),
                            IF number # Null THEN Append(gens, join(current))
                            ELSE gens)
             ELSE IF number # Null
             THEN splitFrom(ls, i + 1, Append(current, ls[i]), number, gens)
             ELSE splitFrom(ls, i + 1, current, number, gens)

splitGenerations(text) == splitFrom(split(text), 1, <<>>, Null, <<>>)

\* the locals of dehashLogs at its start
startDehashLogs(text) ==
    [generations |-> splitGenerations(text), gi |-> 1, dictCache |-> <<>>,
     output |-> <<>>, calls |-> <<>>, buildId |-> <<>>, pc |-> "loop"]

\* dehashLogs was not called
NoInvocation ==
    [generations |-> <<>>, gi |-> 1, dictCache |-> <<>>,
     output |-> <<>>, calls |-> <<>>, buildId |-> <<>>, pc |-> "none"]

\* one turn of the for loop of dehashLogs up to its await or its continue,
\* reading the cache as the Map cache; past the last generation, the return
loopStep(inv, cache) ==
    IF inv.gi > Len(inv.generations) THEN [inv EXCEPT !.pc = "done"]
    ELSE LET generation == inv.generations[inv.gi]
             id == matchBuildId(generation)
         IN  IF id = <<>>
             THEN [inv EXCEPT !.output = @ \o generation \o <<NL>>, !.gi = @ + 1]
             ELSE IF id \in DOMAIN cache
             THEN [inv EXCEPT !.output = @ \o dehashGeneration(cache[id], generation)
                                           \o <<NL>>,
                              !.gi = @ + 1]
             ELSE [inv EXCEPT !.buildId = id, !.calls = Append(@, id),
                              !.pc = "getDictionary"]

\* the awaited getDictionary settles: throw, empty Map, or entries
settleStep(inv, contents) ==
    LET generation == inv.generations[inv.gi]
        r == getDictionary(contents, inv.buildId)
    IN  IF r.kind = "throw" THEN [inv EXCEPT !.pc = "failed"]
        ELSE IF Len(r.dict) = 0
        THEN [inv EXCEPT !.output = @ \o generation \o <<NL>>, !.gi = @ + 1,
                         !.pc = "loop"]
        ELSE [inv EXCEPT !.dictCache = cachePut(@, inv.buildId, r.dict),
                         !.output = @ \o dehashGeneration(r.dict, generation)
                                       \o <<NL>>,
                         !.gi = @ + 1, !.pc = "loop"]

RECURSIVE runAlone(_, _)
\* an invocation run to its end with nothing else in between
runAlone(inv, contents) ==
    IF inv.pc \in {"done", "failed"} THEN inv
    ELSE IF inv.pc = "loop" THEN runAlone(loopStep(inv, inv.dictCache), contents)
    ELSE runAlone(settleStep(inv, contents), contents)

\* the stepwise invocation above and the invocation as a record agree, up to
\* a storage call that throws whatever the bucket holds
InvocationAgrees ==
    /\ SplitDone => generations = splitGenerations(logs)
    /\ pc = "done" =>
          LET inv == runAlone(startDehashLogs(logs), bucket)
          IN  /\ inv.pc = "done"
              /\ inv.output = output
              /\ inv.calls = [k \in 1..Len(calls) |-> calls[k].buildId]
              /\ inv.dictCache = dictCache

(***************************************************************************)
(* Requests.  A form entry is [key, isFile, name, type, size, text]; size  *)
(* is in bytes; names, types, keys and addresses are texts.                *)
(***************************************************************************)
\* MAX_FILE_SIZE = 9.9 * 1024 * 1024 = 10380902.4 bytes, here in tenths of a byte
MAX_FILE_SIZE == 103809024

\* file.size > MAX_FILE_SIZE
exceedsMaxFileSize(size) == 10 * size > MAX_FILE_SIZE

\* bugReportDetails.slice(0, 60), bugReportDetails.length > 60
TitleLength == 60

\* most attachments of a request
MaxAttachments == 2

Txt_watchlogs == <<"w", "a", "t", "c", "h", "-", "l", "o", "g", "s">>
Txt_dehashedName == <<"d", "e", "h", "a", "s", "h", "e", "d", "-">> \o Txt_watchlogs
                        \o <<".", "t", "x", "t">>
Type_textPlain == <<"t", "e", "x", "t", "/", "p", "l", "a", "i", "n">>
Prefix_video == <<"v", "i", "d", "e", "o", "/">>
Prefix_image == <<"i", "m", "a", "g", "e", "/">>
Type_mp4 == Prefix_video \o <<"m", "p", "4">>
Type_png == Prefix_image \o <<"p", "n", "g">>
Type_zip == <<"a", "p", "p", "/", "z", "i", "p">>

File(name, type, size, text) ==
    [key |-> <<"f">>, isFile |-> TRUE, name |-> name, type |-> type,
     size |-> size, text |-> text]

\* a watch-logs attachment holding the text
WatchLogs(text) == File(Txt_watchlogs \o <<".", "t", "x", "t">>, Type_textPlain,
                        Len(text), text)

Screenshot == File(<<"s", ".", "p", "n", "g">>, Type_png, 1000, <<>>)

\* a video of 20 MB
Video20MB == File(<<"v", ".", "m", "p", "4">>, Type_mp4, 20 * 1024 * 1024, <<>>)

FileMenu == {WatchLogs(ScenarioLogs), Screenshot}

\* attachment lists that vary size and type around the limits, the name and
\* type tests of isWatchLogs, and the outcome of the dehashing
ScenarioFiles ==
    { <<Video20MB>>, <<Screenshot, Video20MB>>, <<Video20MB, WatchLogs(ScenarioLogs)>>,
      <<File(<<"b", ".", "p", "n", "g">>, Type_png, 10380903, <<>>)>>,
      <<File(<<"v", ".", "m", "p", "4">>, Type_mp4, 10380902, <<>>)>>,
      <<File(<<"v", ".", "m", "p", "4">>, Type_mp4, 10380903, <<>>)>>,
      <<File(<<"a", ".", "z", "i", "p">>, Type_zip, 50 * 1024 * 1024, <<>>)>>,
      <<File(Txt_watchlogs, Type_zip, Len(ScenarioLogs), ScenarioLogs)>>,
      <<File(<<"n", ".", "t", "x", "t">>, Type_textPlain, Len(ScenarioLogs),
             ScenarioLogs)>>,
      <<WatchLogs(ScenarioTwoIds)>>,
      <<WatchLogs(HashLine)>>,
      <<[key |-> <<"n", "o", "t", "e">>, isFile |-> FALSE, name |-> <<>>,
         type |-> <<>>, size |-> 0, text |-> HashLine], Screenshot>> }

Txt_alice == <<"a", "l", "i", "c", "e">>
Txt_mail == <<"@", "x", ".", "i", "o">>
Txt_testlab == <<"@", "c", "l", "o", "u", "d", "t", "e", "s", "t", "l", "a", "b",
                 "a", "c", "c", "o", "u", "n", "t", "s", ".", "c", "o", "m">>

State(id, name) == [id |-> id, name |-> name]
User(id, name, displayName, email) ==
    [id |-> id, name |-> name, displayName |-> displayName, email |-> email]

\* the workspace: teams with their workflow states, active users
WorldBase ==
    [teams |->
        << [id |-> "team-ops", key |-> <<"O", "P", "S">>,
            states |-> <<State("state-ops", <<"T", "r", "i", "a", "g", "e">>)>>],
           [id |-> "team-eng", key |-> <<"E", "N", "G">>,
            states |->
              << State("state-todo", <<"T", "o", "d", "o">>),
                  State("state-TRIAGE", <<"T", "R", "I", "A", "G", "E">>),
                  State("state-Triage", <<"T", "r", "i", "a", "g", "e">>) >>] >>,
     users |->
       << User("user-bob", <<"B", "o", "b">>, <<"b", "o", "b", "b", "y">>,
                <<"b", "o", "b">> \o Txt_mail),
           User("user-alice", <<"A", "l", "i", "c", "e">>, <<"a", "l">>,
                Txt_alice \o Txt_mail),
           User("user-al", <<"a", "l">>, <<"A", "l", " ", "B">>, <<"r", "e", "p">> \o Txt_mail) >>]

Worlds ==
    { WorldBase,
      [WorldBase EXCEPT !.teams = SubSeq(@, 1, 1)],
      [WorldBase EXCEPT !.teams[2].states = SubSeq(@, 1, 1)],
      [WorldBase EXCEPT !.teams[2].states = <<>>],
      [WorldBase EXCEPT !.users = <<>>],
      [WorldBase EXCEPT !.users = SubSeq(@, 1, 1)] }

EnvBase ==
    [ASSIGNEE_USERNAME |-> Txt_alice, TEAM_KEY |-> <<"e", "n", "g">>,
     LINEAR_API_KEY |-> TRUE, LOG_HASH_BUCKET |-> TRUE]

\* a text of n characters
Details(n) == [i \in 1..n |-> DigitSeq[(i % 10) + 1]]

BugReportBase ==
    [bugReportDetails |-> Details(3), username |-> <<"r", "e", "p">>,
     email |-> <<"R", "e", "p">> \o Txt_mail, summary |-> <<"s">>,
     latestLogs |-> ScenarioLogs]

RequestBase ==
    [method |-> "POST", contentType |-> "multipart/form-data", json |-> "valid",
     bugReport |-> BugReportBase, files |-> <<>>, env |-> EnvBase,
     linear |-> WorldBase, bucket |-> BucketDict]

\* requests that differ from RequestBase in one respect each
Requests ==
    {[RequestBase EXCEPT !.files = f] :
        f \in SeqsUpTo(FileMenu, MaxAttachments) \cup ScenarioFiles}
    \cup {[RequestBase EXCEPT !.files = <<WatchLogs(ScenarioLogs)>>, !.bucket = b] :
            b \in Buckets}
    \cup {[RequestBase EXCEPT !.bugReport.bugReportDetails = Details(n)] :
            n \in {0, 1, 59, 60, 61, 70}}
    \cup {[RequestBase EXCEPT !.bugReport.latestLogs = t] :
            t \in {<<>>, HashLine, ScenarioMixed}}
    \cup {[RequestBase EXCEPT !.bugReport.email = e] :
            e \in {<<"t">> \o Txt_testlab,
                   <<"t">> \o [i \in 1..Len(Txt_testlab) |->
                                  IF Txt_testlab[i] = "c" THEN "C" ELSE Txt_testlab[i]],
                   Txt_testlab \o <<".", "x">>}}
    \cup {[RequestBase EXCEPT !.linear = w] : w \in Worlds}
    \cup {[RequestBase EXCEPT !.env.ASSIGNEE_USERNAME = u] :
            u \in {<<"A", "L">>, <<"b", "o">>, <<"z", "e", "d">>, <<>>}}
    \cup {[RequestBase EXCEPT !.env.TEAM_KEY = k] : k \in {<<"o", "p", "s">>, <<>>}}
    \cup {[RequestBase EXCEPT !.env.LINEAR_API_KEY = FALSE],
          [RequestBase EXCEPT !.env.LOG_HASH_BUCKET = FALSE],
          [RequestBase EXCEPT !.method = "GET"],
          [RequestBase EXCEPT !.contentType = "application/json"],
          [RequestBase EXCEPT !.json = "malformed"],
          [RequestBase EXCEPT !.json = "missing"]}
    \cup {[RequestBase EXCEPT !.files = <<WatchLogs(ScenarioLogs), Screenshot>>,
                              !.bugReport.email = e] :
            e \in {<<"T">> \o [i \in 1..Len(Txt_testlab) |->
                                  IF Txt_testlab[i] = "t" THEN "T" ELSE Txt_testlab[i]]}}
    \cup {[RequestBase EXCEPT !.files = <<WatchLogs(ScenarioLogs), Screenshot>>,
                              !.bugReport.bugReportDetails = <<>>],
          [RequestBase EXCEPT !.files = <<WatchLogs(ScenarioLogs), Screenshot>>,
                              !.json = "withoutDetails"],
          [RequestBase EXCEPT !.files = <<WatchLogs(ScenarioLogs), Screenshot>>,
                              !.method = "GET", !.json = "malformed"]}

(***************************************************************************)
(* formatIssueBody, uploadAttachment and the lookups of createLinearIssue. *)
(* The body is the sequence of the parts of its template: literal text,    *)
(* interpolated fields, attachment entries.                                *)
(***************************************************************************)
\* variant: the whole text has to be the suffix
endsWith_WholeText(s, suffix) == s = suffix

endsWith(s, suffix) ==
    /\ Len(s) >= Len(suffix)
    /\ SubSeq(s, Len(s) - Len(suffix) + 1, Len(s)) = suffix

\* array.find(test), passing being the indices of the elements that pass the
\* test: the first of them, undefined (Null) if none
find(arr, passing) ==
    IF passing = {} THEN Null
    ELSE arr[CHOOSE i \in passing : \A j \in passing : i <= j]

\* throw new Error(message): none of the messages of index.ts holds 'Linear API'
Throw(message) == [message |-> message, linearApi |-> FALSE]

\* the catch of the handler: status by error.message.includes('Linear API')
ErrorResponse(error) ==
    [status |-> IF error.linearApi THEN 400 ELSE 500,
     body |-> [kind |-> "error", message |-> error.message]]

\* variant: the first 60 characters without the ellipsis
title_NoEllipsis(details) ==
    SubSeq(details, 1, IF Len(details) < TitleLength THEN Len(details) ELSE TitleLength)

\* bugReportDetails.slice(0, 60) + (bugReportDetails.length > 60 ? '...' : '')
title(details) ==
    SubSeq(details, 1, IF Len(details) < TitleLength THEN Len(details) ELSE TitleLength)
        \o (IF Len(details) > TitleLength THEN <<".", ".", ".">> ELSE <<>>)

Text(label) == [kind |-> "text", label |-> label]
Field(label, value) == [kind |-> "field", label |-> label, value |-> value]

\* the template of formatIssueBody up to the Summary block
bodyHead(bugReport) ==
    << Text("### Reporter"),
       Field("username", bugReport.username),
       Field("email", bugReport.email),
       Text("Reported"),
       Text("### Problem"),
       Field("bugReportDetails", bugReport.bugReportDetails),
       Text("### Summary"),
       Field("summary", bugReport.summary) >>

\* ![name](url) for image/ types, [name](url) otherwise
attachmentEntry(file, url) ==
    [kind |-> IF startsWith(file.type, Prefix_image) THEN "image" ELSE "link",
     name |-> file.name, url |-> url]

\* variant: the block holds the output of the pipeline for the field
latestLogsBlock_Dehashed(request) ==
    runAlone(startDehashLogs(request.bugReport.latestLogs), request.bucket).output

\* the text between the fences of the Latest Logs block
latestLogsBlock(request) == request.bugReport.latestLogs

bodyTail(request) ==
    << Text("### Latest Logs"), Field("latestLogs", latestLogsBlock(request)) >>

\* variant: any attachment of type text/plain counts as watch logs
isWatchLogs_AnyName(file) == file.type = Type_textPlain

isWatchLogs(file) ==
    startsWith(file.name, Txt_watchlogs) /\ file.type = Type_textPlain

\* entries of the form other than 'json' that are Files
IsAttachment(e) == e.key # <<"j", "s", "o", "n">> /\ e.isFile

attachmentsOf(files) == SelectSeq(files, IsAttachment)

\* uploadAttachment up to its first await: the size test on videos
startUpload(task, uploadFile) ==
    IF startsWith(uploadFile.type, Prefix_video) /\ exceedsMaxFileSize(uploadFile.size)
    THEN [task EXCEPT !.stage = "rejected", !.uploadFile = uploadFile,
                      !.error = Throw("Video file is too large")]
    ELSE [task EXCEPT !.stage = "fileUpload", !.uploadFile = uploadFile]

\* the async callback of attachments.map up to its first await
startTask(file) ==
    LET task == [file |-> file, stage |-> "text", inv |-> NoInvocation,
                 uploadFile |-> file, url |-> [asset |-> 0, params |-> <<>>],
                 error |-> [message |-> "", linearApi |-> FALSE]]
    IN  IF isWatchLogs(file) THEN task ELSE startUpload(task, file)

\* variant: one Map for all invocations
cacheOf_Shared(t) ==
    LET ids == UNION {DOMAIN tasks[u].inv.dictCache : u \in DOMAIN tasks}
    IN  [id \in ids |->
            tasks[CHOOSE u \in DOMAIN tasks : id \in DOMAIN tasks[u].inv.dictCache]
                .inv.dictCache[id]]

\* const dictCache = new Map() of the invocation of task t
cacheOf(t) == tasks[t].inv.dictCache

\* variant: the first state of the team
findTriageState_First(states) == find(states, DOMAIN states)

\* states.nodes.find(state => state.name.toLowerCase() === 'triage')
findTriageState(states) ==
    find(states, {i \in DOMAIN states :
                     toLowerCase(states[i].name) = <<"t", "r", "i", "a", "g", "e">>})

\* users.find(...) on name, displayName and the start of the email
findAssignee(users, assigneeUsername) ==
    LET username == toLowerCase(assigneeUsername)
    IN  find(users, {i \in DOMAIN users :
                        \/ toLowerCase(users[i].name) = username
                        \/ toLowerCase(users[i].displayName) = username
                        \/ startsWith(toLowerCase(users[i].email), username)})

(***************************************************************************)
(* The handler, one action per stretch between two awaits.                 *)
(***************************************************************************)
ReqInit ==
    /\ PipelineIdle
    /\ UtilIdle
    /\ req \in Requests
    /\ hpc = "start"
    /\ locals = [title |-> <<>>]
    /\ tasks = <<>>
    /\ uploads = <<>>
    /\ issues = <<>>
    /\ response = [status |-> 0]

\* the handler returns the response
Respond(r) ==
    /\ hpc' = "done"
    /\ response' = r

\* variant: a rejection is answered once every other promise has settled
Settle_AwaitAll(t, task) ==
    /\ tasks' = [tasks EXCEPT ![t] = task]
    /\ IF /\ task.stage = "rejected"
          /\ hpc = "attachments"
          /\ \A u \in DOMAIN tasks \ {t} : tasks[u].stage \in {"resolved", "rejected"}
       THEN Respond(ErrorResponse(task.error))
       ELSE UNCHANGED <<hpc, response>>

\* the promise of task t settles as the record task; a rejection rejects
\* Promise.all, which formatIssueBody awaits, and the handler's catch answers
Settle(t, task) ==
    /\ tasks' = [tasks EXCEPT ![t] = task]
    /\ IF task.stage = "rejected" /\ hpc = "attachments"
       THEN Respond(ErrorResponse(task.error))
       ELSE UNCHANGED <<hpc, response>>

\* createLinearIssue up to the await of formatIssueBody, and formatIssueBody
\* up to its first await
StartIssue ==
    LET attachments == attachmentsOf(IF req.contentType = "multipart/form-data"
                                     THEN req.files ELSE <<>>)
        started == [i \in 1..Len(attachments) |-> startTask(attachments[i])]
        rejected == {i \in 1..Len(started) : started[i].stage = "rejected"}
    IN  /\ tasks' = started
        /\ IF Len(attachments) = 0
           THEN /\ locals' = [title |-> title(req.bugReport.bugReportDetails),
                              body |-> bodyHead(req.bugReport) \o bodyTail(req)]
                /\ hpc' = "teams"
                /\ UNCHANGED response
           ELSE /\ locals' = [title |-> title(req.bugReport.bugReportDetails),
                              body |-> bodyHead(req.bugReport)
                                          \o <<Text("### Attachments")>>]
                /\ IF rejected = {}
                   THEN hpc' = "attachments" /\ UNCHANGED response
                   ELSE Respond(ErrorResponse(
                            started[CHOOSE i \in rejected :
                                        \A j \in rejected : i <= j].error))

\* fetch from its start to its first return or to the first await on a
\* service: method, parsing, validation, environment
Receive ==
    /\ hpc = "start"
    /\ IF req.method # "POST"
       THEN /\ Respond([status |-> 405,
                        body |-> [kind |-> "text", message |-> "Method not allowed"]])
            /\ UNCHANGED <<locals, tasks>>
       ELSE IF req.contentType = "multipart/form-data" /\ req.json = "missing"
       THEN /\ Respond(ErrorResponse(Throw("Missing or invalid JSON file in form-data")))
            /\ UNCHANGED <<locals, tasks>>
       ELSE IF req.json = "malformed"
       THEN /\ \E api \in BOOLEAN :
                 Respond(ErrorResponse([message |-> "SyntaxError", linearApi |-> api]))
            /\ UNCHANGED <<locals, tasks>>
       ELSE IF req.json = "withoutDetails" \/ Len(req.bugReport.bugReportDetails) = 0
       THEN /\ Respond([status |-> 400,
                        body |-> [kind |-> "text",
                                  message |-> "Bug report details are required"]])
            /\ UNCHANGED <<locals, tasks>>
       ELSE IF endsWith(toLowerCase(req.bugReport.email), Txt_testlab)
       THEN /\ Respond([status |-> 400,
                        body |-> [kind |-> "error",
                                  message |-> "Issues from test lab accounts are not forwarded"]])
            /\ UNCHANGED <<locals, tasks>>
       ELSE IF Len(req.env.ASSIGNEE_USERNAME) = 0
       THEN /\ Respond(ErrorResponse(Throw("ASSIGNEE_USERNAME environment variable is not set")))
            /\ UNCHANGED <<locals, tasks>>
       ELSE IF ~req.env.LINEAR_API_KEY
       THEN /\ Respond(ErrorResponse(Throw("LINEAR_API_KEY environment variable is not set")))
            /\ UNCHANGED <<locals, tasks>>
       ELSE IF Len(req.env.TEAM_KEY) = 0
       THEN /\ Respond(ErrorResponse(Throw("TEAM_KEY environment variable is not set")))
            /\ UNCHANGED <<locals, tasks>>
       ELSE IF ~req.env.LOG_HASH_BUCKET
       THEN /\ Respond(ErrorResponse(Throw("Log hash bucket environment variables are not set")))
            /\ UNCHANGED <<locals, tasks>>
       ELSE StartIssue
    /\ UNCHANGED <<req, uploads, issues>>
    /\ UNCHANGED <<pipelineVars, util>>

\* await file.text() resolves and dehashLogs starts
TaskReadText(t) ==
    /\ tasks[t].stage = "text"
    /\ tasks' = [tasks EXCEPT ![t].stage = "dehashLogs",
                              ![t].inv = startDehashLogs(tasks[t].file.text)]
    /\ UNCHANGED <<req, hpc, locals, uploads, issues, response>>
    /\ UNCHANGED <<pipelineVars, util>>

\* one turn of the loop of the invocation of task t
TaskLoop(t) ==
    /\ tasks[t].stage = "dehashLogs"
    /\ tasks[t].inv.pc = "loop"
    /\ tasks[t].inv.gi <= Len(tasks[t].inv.generations)
    /\ tasks' = [tasks EXCEPT ![t].inv = loopStep(tasks[t].inv, cacheOf(t))]
    /\ UNCHANGED <<req, hpc, locals, uploads, issues, response>>
    /\ UNCHANGED <<pipelineVars, util>>

\* the getDictionary call of task t settles by what the bucket holds, or a
\* storage call throws; a throw rejects dehashLogs and the promise of the task
TaskGetDictionary(t) ==
    /\ tasks[t].stage = "dehashLogs"
    /\ tasks[t].inv.pc = "getDictionary"
    /\ \E inv \in {settleStep(tasks[t].inv, req.bucket),
                   [tasks[t].inv EXCEPT !.pc = "failed"]} :
          IF inv.pc = "failed"
          THEN Settle(t, [tasks[t] EXCEPT !.inv = inv, !.stage = "rejected",
                                          !.error = Throw("getDictionary")])
          ELSE Settle(t, [tasks[t] EXCEPT !.inv = inv])
    /\ UNCHANGED <<req, locals, uploads, issues>>
    /\ UNCHANGED <<pipelineVars, util>>

\* dehashLogs returns; the file to upload is the dehashed text unless it is
\* empty; uploadAttachment starts
TaskDehashed(t) ==
    /\ tasks[t].stage = "dehashLogs"
    /\ tasks[t].inv.pc = "loop"
    /\ tasks[t].inv.gi > Len(tasks[t].inv.generations)
    /\ LET dehashed == tasks[t].inv.output
           uploadFile == IF Len(dehashed) > 0
                         THEN File(Txt_dehashedName, tasks[t].file.type,
                                   Len(dehashed), dehashed)
                         ELSE tasks[t].file
       IN  Settle(t, startUpload([tasks[t] EXCEPT !.inv.pc = "done"], uploadFile))
    /\ UNCHANGED <<req, locals, uploads, issues>>
    /\ UNCHANGED <<pipelineVars, util>>

\* await linearClient.fileUpload(...) settles
TaskFileUpload(t) ==
    /\ tasks[t].stage = "fileUpload"
    /\ \/ Settle(t, [tasks[t] EXCEPT !.stage = "put"])
       \/ Settle(t, [tasks[t] EXCEPT !.stage = "rejected",
                                     !.error = Throw("Failed to request upload URL")])
       \/ \E api \in BOOLEAN :
             Settle(t, [tasks[t] EXCEPT !.stage = "rejected",
                                        !.error = [message |-> "fileUpload",
                                                   linearApi |-> api]])
    /\ UNCHANGED <<req, locals, uploads, issues>>
    /\ UNCHANGED <<pipelineVars, util>>

\* the PUT of the file settles: stored and the asset URL returned (with the
\* resizing parameters for an image above the limit), or not stored
TaskPut(t) ==
    /\ tasks[t].stage = "put"
    /\ \/ /\ Settle(t, [tasks[t] EXCEPT
                          !.stage = "resolved",
                          !.url = [asset |-> t,
                                   params |->
                                     IF /\ startsWith(tasks[t].uploadFile.type, Prefix_image)
                                        /\ exceedsMaxFileSize(tasks[t].uploadFile.size)
                                     THEN <<"width=1920", "quality=80", "format=auto">>
                                     ELSE <<>>]])
          /\ uploads' = Append(uploads, [asset |-> t, file |-> tasks[t].uploadFile,
                                         answered |-> hpc = "done"])
       \/ /\ Settle(t, [tasks[t] EXCEPT !.stage = "rejected",
                                        !.error = Throw("Failed to upload file to Linear")])
          /\ UNCHANGED uploads
    /\ UNCHANGED <<req, locals, issues>>
    /\ UNCHANGED <<pipelineVars, util>>

\* variant: the entries take the asset URLs in the order the uploads completed
AttachmentsSettled_CompletionOrder ==
    /\ hpc = "attachments"
    /\ \A t \in DOMAIN tasks : tasks[t].stage = "resolved"
    /\ locals' = [locals EXCEPT
                    !.body = @ \o [i \in 1..Len(tasks) |->
                                      attachmentEntry(tasks[i].file,
                                                      tasks[uploads[i].asset].url)]
                               \o bodyTail(req)]
    /\ hpc' = "teams"
    /\ UNCHANGED <<req, tasks, uploads, issues, response>>
    /\ UNCHANGED <<pipelineVars, util>>

\* Promise.all resolves: the entries of the attachments, in the order of
\* bugReport.attachments, then the Latest Logs block; formatIssueBody returns
\* and linearClient.teams() is awaited
AttachmentsSettled ==
    /\ hpc = "attachments"
    /\ \A t \in DOMAIN tasks : tasks[t].stage = "resolved"
    /\ locals' = [locals EXCEPT
                    !.body = @ \o [i \in 1..Len(tasks) |->
                                      attachmentEntry(tasks[i].file, tasks[i].url)]
                               \o bodyTail(req)]
    /\ hpc' = "teams"
    /\ UNCHANGED <<req, tasks, uploads, issues, response>>
    /\ UNCHANGED <<pipelineVars, util>>

\* the teams arrive: the team by its key, then team.states() is awaited
Teams ==
    /\ hpc = "teams"
    /\ LET teams == req.linear.teams
           team == find(teams, {i \in DOMAIN teams :
                                   toLowerCase(teams[i].key)
                                       = toLowerCase(req.env.TEAM_KEY)})
       IN  IF team = Null
           THEN /\ Respond(ErrorResponse(Throw("Could not find team with key")))
                /\ UNCHANGED locals
           ELSE /\ locals' = [title |-> locals.title, description |-> locals.body,
                              team |-> team]
                /\ hpc' = "states"
                /\ UNCHANGED response
    /\ UNCHANGED <<req, tasks, uploads, issues>>
    /\ UNCHANGED <<pipelineVars, util>>

\* the states arrive: the triage state, then linearClient.users() is awaited
States ==
    /\ hpc = "states"
    /\ LET triageState == findTriageState(locals.team.states)
       IN  IF triageState = Null
           THEN /\ Respond(ErrorResponse(Throw("Could not find Triage state")))
                /\ UNCHANGED locals
           ELSE /\ locals' = [title |-> locals.title, description |-> locals.description,
                              team |-> locals.team, triageState |-> triageState]
                /\ hpc' = "users"
                /\ UNCHANGED response
    /\ UNCHANGED <<req, tasks, uploads, issues>>
    /\ UNCHANGED <<pipelineVars, util>>

\* the users arrive: assignee and subscriber, then createIssue is awaited
UsersArrive ==
    /\ hpc = "users"
    /\ LET users == req.linear.users
           assignee == findAssignee(users, req.env.ASSIGNEE_USERNAME)
           reporterUser == find(users, {i \in DOMAIN users :
                                           toLowerCase(users[i].email)
                                               = toLowerCase(req.bugReport.email)})
       IN  IF Len(users) = 0
           THEN /\ Respond(ErrorResponse(Throw("No active users found in Linear")))
                /\ UNCHANGED locals
           ELSE IF assignee = Null
           THEN /\ Respond(ErrorResponse(Throw("Could not find user with username")))
                /\ UNCHANGED locals
           ELSE /\ locals' = [title |-> locals.title,
                              description |-> locals.description,
                              teamId |-> locals.team.id,
                              stateId |-> locals.triageState.id,
                              assigneeId |-> assignee.id,
                              subscriberIds |-> IF reporterUser = Null THEN <<>>
                                                ELSE <<reporterUser.id>>]
                /\ hpc' = "createIssue"
                /\ UNCHANGED response
    /\ UNCHANGED <<req, tasks, uploads, issues>>
    /\ UNCHANGED <<pipelineVars, util>>

\* createIssue resolves: the issue exists and issueCreate.issue is awaited,
\* or the payload reports no success
CreateIssue ==
    /\ hpc = "createIssue"
    /\ \/ /\ issues' = Append(issues, locals)
          /\ hpc' = "issue"
          /\ UNCHANGED response
       \/ /\ Respond(ErrorResponse(Throw("Failed to create issue")))
          /\ UNCHANGED issues
    /\ UNCHANGED <<req, locals, tasks, uploads>>
    /\ UNCHANGED <<pipelineVars, util>>

\* the created issue is read back; createLinearIssue returns, response 201
ReadIssue ==
    /\ hpc = "issue"
    /\ Respond([status |-> 201,
                body |-> [kind |-> "result", success |-> TRUE,
                          issue |-> [id |-> Len(issues), title |-> locals.title]]])
    /\ UNCHANGED <<req, locals, tasks, uploads, issues>>
    /\ UNCHANGED <<pipelineVars, util>>

\* an awaited call of the Linear client rejects with an error of the client
LinearCallRejects ==
    /\ hpc \in {"teams", "states", "users", "createIssue", "issue"}
    /\ \E api \in BOOLEAN :
          Respond(ErrorResponse([message |-> "LinearError", linearApi |-> api]))
    /\ UNCHANGED <<req, locals, tasks, uploads, issues>>
    /\ UNCHANGED <<pipelineVars, util>>

ReqNext ==
    \/ Receive
    \/ \E t \in DOMAIN tasks : TaskReadText(t)
    \/ \E t \in DOMAIN tasks : TaskLoop(t)
    \/ \E t \in DOMAIN tasks : TaskGetDictionary(t)
    \/ \E t \in DOMAIN tasks : TaskDehashed(t)
    \/ \E t \in DOMAIN tasks : TaskFileUpload(t)
    \/ \E t \in DOMAIN tasks : TaskPut(t)
    \/ AttachmentsSettled
    \/ Teams
    \/ States
    \/ UsersArrive
    \/ CreateIssue
    \/ ReadIssue
    \/ LinearCallRejects

ReqSpec == ReqInit /\ [][ReqNext]_vars

(***************************************************************************)
(* Properties of the handler.                                              *)
(***************************************************************************)
\* the texts a request can hand to the pipeline or embed
RequestTexts ==
    UNION {{r.files[i].text : i \in DOMAIN r.files} \cup {r.bugReport.latestLogs} :
              r \in Requests}

\* for every text and bucket, the invocation run alone to its end
RunAloneTable ==
    [text \in RequestTexts, contents \in Buckets |->
        runAlone(startDehashLogs(text), contents)]

\* the invocation of task t run alone on the text of its attachment
Alone(t) == RunAloneTable[tasks[t].file.text, req.bucket]

IsPrefix(s, u) == Len(s) <= Len(u) /\ SubSeq(u, 1, Len(s)) = s

\* C14: the invocations of one request share no cache: each fetches the
\* dictionaries of its own build identifiers, holds in its cache only what it
\* fetched itself, and returns, under every interleaving with the others, the
\* text it returns when run alone.
C14_InvocationsIndependent ==
    \A t \in DOMAIN tasks :
        tasks[t].inv.pc # "none" =>
            LET alone == Alone(t)
            IN  /\ IsPrefix(tasks[t].inv.calls, alone.calls)
                /\ DOMAIN tasks[t].inv.dictCache \subseteq Range(tasks[t].inv.calls)
                /\ tasks[t].inv.pc = "done" =>
                      /\ alone.pc = "done"
                      /\ tasks[t].inv.output = alone.output
                      /\ tasks[t].inv.calls = alone.calls

C14_Witness ==
    /\ Len(tasks) = 2
    /\ \A t \in DOMAIN tasks :
          /\ tasks[t].inv.pc = "done"
          /\ tasks[t].inv.calls = <<Txt_abc123>>
          /\ tasks[t].inv.output = ScenarioExpected \o <<NL>>

\* formatIssueBody has returned the body
BodyFormatted == hpc = "teams"

\* the output of the pipeline for a text
PipelineOutput(text) == RunAloneTable[text, req.bucket].output

\* C15 as stated: the text of the Latest Logs block of the issue body is the
\* output of the dehash pipeline for the latestLogs field.
C15_LatestLogsDehashed ==
    BodyFormatted =>
        locals.body[Len(locals.body)]
            = Field("latestLogs", PipelineOutput(req.bugReport.latestLogs))

\* C15 amended: the Latest Logs block holds the latestLogs field verbatim; the
\* pipeline is applied to the attachments whose name starts with 'watch-logs'
\* and whose type is 'text/plain', and only to them, and its output, when not
\* empty, is what is uploaded for such an attachment, as
\* 'dehashed-watch-logs.txt'.
C15_LatestLogsVerbatim ==
    /\ BodyFormatted =>
          /\ locals.body[Len(locals.body) - 1] = Text("### Latest Logs")
          /\ locals.body[Len(locals.body)]
                = Field("latestLogs", req.bugReport.latestLogs)
    /\ \A t \in DOMAIN tasks :
          LET watchLogs == /\ startsWith(tasks[t].file.name, Txt_watchlogs)
                           /\ tasks[t].file.type = Type_textPlain
          IN  /\ tasks[t].inv.pc # "none" => watchLogs
              /\ tasks[t].stage \notin {"text", "dehashLogs"} /\ ~watchLogs
                    => tasks[t].uploadFile = tasks[t].file
              /\ tasks[t].stage \in {"fileUpload", "put", "resolved"} /\ watchLogs
                    => LET dehashed == PipelineOutput(tasks[t].file.text)
                       IN  IF Len(dehashed) > 0
                           THEN /\ tasks[t].uploadFile.text = dehashed
                                /\ tasks[t].uploadFile.name = Txt_dehashedName
                           ELSE tasks[t].uploadFile = tasks[t].file

C15_Witness ==
    /\ BodyFormatted
    /\ req.bugReport.latestLogs = ScenarioLogs
    /\ req.bucket = BucketDict
    /\ Len(tasks) = 1
    /\ tasks[1].stage = "resolved"
    /\ tasks[1].uploadFile.text = ScenarioExpected \o <<NL>>
    /\ locals.body[Len(locals.body)].value = ScenarioLogs

\* C17: a POST request is answered 201 exactly when its issue was created;
\* there is at most one issue, created only after every attachment resolved;
\* every other answer to a thrown error is 400 or 500 and leaves no issue.
C17_ResponseMatchesIssue ==
    /\ Len(issues) <= 1
    /\ Len(issues) = 1 => \A t \in DOMAIN tasks : tasks[t].stage = "resolved"
    /\ (hpc = "done" /\ req.method = "POST") =>
          /\ response.status = 201 <=> Len(issues) = 1
          /\ response.status # 201 =>
                /\ response.status \in {400, 500}
                /\ issues = <<>>

\* C18: no attachment of at most 50 MB makes the request fail for its size.
C18_UpTo50MBAccepted ==
    \A t \in DOMAIN tasks :
        tasks[t].file.size <= 50 * 1024 * 1024 =>
            ~(/\ tasks[t].stage = "rejected"
              /\ tasks[t].error.message = "Video file is too large")

\* C19: the title is bugReportDetails when that has at most 60 characters,
\* else its first 60 characters and '...'; it has at most 63 characters; the
\* description holds bugReportDetails unchanged.
C19_TitleTruncated ==
    \A k \in 1..Len(issues) :
        LET details == req.bugReport.bugReportDetails
            issue == issues[k]
        IN  /\ Len(details) <= 60 => issue.title = details
            /\ Len(details) > 60 =>
                  issue.title = SubSeq(details, 1, 60) \o <<".", ".", ".">>
            /\ Len(issue.title) <= 63
            /\ \E p \in 1..Len(issue.description) :
                  issue.description[p] = Field("bugReportDetails", details)

C19_Witness ==
    /\ Len(issues) = 1
    /\ Len(req.bugReport.bugReportDetails) = 61
    /\ Len(issues[1].title) = 63
    /\ response.status = 201

\* the first element of arr among those at the indices passing has this id
FirstIs(arr, passing, id) ==
    \E k \in passing :
        /\ arr[k].id = id
        /\ \A j \in passing : k <= j

KeyMatches(team) == toLowerCase(team.key) = toLowerCase(req.env.TEAM_KEY)

IsTriage(state) == toLowerCase(state.name) = <<"t", "r", "i", "a", "g", "e">>

UserMatches(user) ==
    LET username == toLowerCase(req.env.ASSIGNEE_USERNAME)
    IN  \/ toLowerCase(user.name) = username
        \/ toLowerCase(user.displayName) = username
        \/ IsPrefix(username, toLowerCase(user.email))

TestLabReporter ==
    LET email == toLowerCase(req.bugReport.email)
        n == Len(Txt_testlab)
    IN  /\ Len(email) >= n
        /\ \A i \in 1..n : email[Len(email) - n + i] = Txt_testlab[i]

\* the request body parses to a bug report
BodyParses == req.json \in {"valid", "withoutDetails"}

NoSideEffect == tasks = <<>> /\ uploads = <<>> /\ issues = <<>>

\* C21: a POST whose bug report lacks bugReportDetails or has it empty, or
\* whose reporter address ends with '@cloudtestlabaccounts.com' in any casing,
\* is answered 400 with no dictionary fetch, no upload and no issue; any other
\* method is answered 405, whatever the body holds, with no side effect.
C21_RejectedBeforeSideEffects ==
    /\ req.method # "POST" =>
          /\ NoSideEffect
          /\ hpc = "done" => response.status = 405
    /\ (/\ req.method = "POST"
        /\ BodyParses
        /\ \/ req.json = "withoutDetails"
           \/ req.bugReport.bugReportDetails = <<>>
           \/ TestLabReporter) =>
          /\ NoSideEffect
          /\ hpc = "done" => response.status = 400

C21_Witness ==
    /\ hpc = "done"
    /\ response.status = 400
    /\ Len(req.files) = 2
    /\ req.bugReport.email[1] = "T"
    /\ TestLabReporter
    /\ NoSideEffect

\* C22: within one dehashLogs invocation the generations are processed one
\* after another.  A getDictionary call is pending only while the loop is
\* suspended in it, and then it is the last call made and belongs to the
\* generation under examination, so at most one call is in flight.  The
\* generation index is always one more than the number of segments appended:
\* generation k+1 is not examined before the segment of generation k is in the
\* output, and the segments are those of the generations in order.  A
\* dictionary enters the cache together with the segment of the generation
\* whose call loaded it: the cached identifiers are those of the loaded calls,
\* and no two calls of the invocation loaded the same identifier.
C22_OneGenerationAtATime ==
    /\ Len(segments) = gi - 1
    /\ \A k \in 1..Len(segments) : segments[k].generation = generations[k]
    /\ \A i \in 1..Len(calls) :
          /\ calls[i].generation <= gi
          /\ i < Len(calls) => calls[i].generation < calls[i + 1].generation
          /\ calls[i].outcome = "pending" =>
                /\ i = Len(calls)
                /\ pc = "getDictionary"
                /\ calls[i].generation = gi
          /\ calls[i].outcome = "loaded" =>
                /\ calls[i].buildId \in DOMAIN dictCache
                /\ segments[calls[i].generation].how = "loaded"
                /\ \A j \in 1..Len(calls) :
                      (j # i /\ calls[j].buildId = calls[i].buildId)
                          => calls[j].outcome # "loaded"
    /\ \A id \in DOMAIN dictCache :
          \E i \in 1..Len(calls) :
              calls[i].buildId = id /\ calls[i].outcome = "loaded"

\* the second generation's call is pending after the first one's dictionary
\* was loaded and its segment appended
C22_Witness ==
    /\ pc = "getDictionary"
    /\ gi = 2
    /\ Len(calls) = 2
    /\ calls[1].outcome = "loaded"
    /\ calls[2].outcome = "pending"
    /\ Len(segments) = 1

\* the listed objects whose key starts with the lowercased build identifier
MatchingKeys(id) ==
    {j \in 1..Len(bucket) :
        bucket[j].hasKey /\ IsPrefix(toLowerCase(id), bucket[j].Key)}

\* the stored object of the first listed match
FirstMatchBody(id) ==
    bucket[CHOOSE j \in MatchingKeys(id) : \A k \in MatchingKeys(id) : j <= k].Body

\* the stored object has no Body, is not JSON, or is a JSON primitive
BrokenBody(body) ==
    \/ body.type = "none"
    \/ body.type = "text" /\ body.json \in {"unparsable", "primitive"}

\* the stored object is a JSON object with the given number of entries or more
ObjectWith(body, n) ==
    body.type = "text" /\ body.json = "object" /\ Len(body.entries) >= n

\* C23 as stated: a call resolves with an empty dictionary only when no listed
\* key starts with the lowercased build identifier; a loaded dictionary is
\* that of the first listed match; a match without body or with a malformed
\* payload never resolves.
C23_EmptyOnlyWithoutMatch ==
    \A i \in 1..Len(calls) :
        LET id == calls[i].buildId
        IN  /\ calls[i].outcome = "empty" => MatchingKeys(id) = {}
            /\ calls[i].outcome = "loaded" =>
                  /\ MatchingKeys(id) # {}
                  /\ dictCache[id] = FirstMatchBody(id).entries
            /\ (MatchingKeys(id) # {} /\ BrokenBody(FirstMatchBody(id)))
                  => calls[i].outcome \in {"pending", "threw"}

\* C23: a getDictionary call resolves with an empty dictionary when the
\* listing is empty, when no listed key starts with the lowercased build
\* identifier (the lookup is case-insensitive on the identifier), or when the
\* first listed match stores a JSON object without entries; it resolves with
\* entries only with those of the first listed match; when the first match has
\* no body, does not parse or parses to a primitive, the call throws and never
\* resolves.
C23_EmptyDictionaryCases ==
    \A i \in 1..Len(calls) :
        LET id == calls[i].buildId
            ms == MatchingKeys(id)
        IN  /\ calls[i].outcome = "empty" =>
                  \/ ms = {}
                  \/ /\ ObjectWith(FirstMatchBody(id), 0)
                     /\ FirstMatchBody(id).entries = <<>>
            /\ calls[i].outcome = "loaded" =>
                  /\ ms # {}
                  /\ ObjectWith(FirstMatchBody(id), 1)
                  /\ dictCache[id] = FirstMatchBody(id).entries
            /\ (ms # {} /\ BrokenBody(FirstMatchBody(id)))
                  => calls[i].outcome \in {"pending", "threw"}
            /\ ms = {} => calls[i].outcome \in {"pending", "empty", "threw"}

\* a call resolved with an empty dictionary although a listed key matches
C23_Witness ==
    \E i \in 1..Len(calls) :
        /\ calls[i].outcome = "empty"
        /\ MatchingKeys(calls[i].buildId) # {}
        /\ ObjectWith(FirstMatchBody(calls[i].buildId), 0)

(***************************************************************************)
(* The invocation under the scheduling of the runtime: the synchronous     *)
(* code between two awaits runs to completion, so every step of the        *)
(* invocation other than the settling of the awaited getDictionary call    *)
(* is taken once it is enabled.  Nothing is assumed of the provider.       *)
(* The recursions of split and dehashFrom are written as recursive         *)
(* functions, and the build identifier of the cached branch is bound by a  *)
(* quantifier, so that their arguments are values when ENABLED is          *)
(* evaluated.                                                              *)
(***************************************************************************)
RunToCompletion ==
    \/ SplitStart
    \/ ReadMarkerLine
    \/ ReadGenerationLine
    \/ ReadOrphanLine
    \/ SplitFlush
    \/ NoBuildId
    \/ UseCachedDictionary
    \/ CallGetDictionary
    \/ ReturnOutput

\* the invocations on the scenario texts, with every bucket
FairInit == Init /\ logs \in ScenarioInputs

FairSpec == FairInit /\ [][Next]_vars /\ WF_vars(RunToCompletion)

Terminated ==
    \/ pc = "done" /\ result.kind = "returned"
    \/ pc = "failed" /\ result.kind = "rejected"

\* C24: every invocation terminates, returning the output text or rejecting,
\* unless a getDictionary call never settles: an invocation that does not
\* terminate stays suspended in a provider call for ever, and in no other
\* place.
C24_Terminates == <>[](pc = "getDictionary") \/ <>Terminated

\* an invocation that was suspended in two provider calls has returned
C24_Witness ==
    /\ pc = "done"
    /\ result.kind = "returned"
    /\ Len(calls) = 2
    /\ calls[2].outcome # "pending"

\* the Files of the form, in the order of the form
RequestAttachments ==
    SelectSeq(IF req.contentType = "multipart/form-data" THEN req.files ELSE <<>>,
              IsAttachment)

\* the number of elements of the description before the attachment entries
EntriesOffset == Len(bodyHead(req.bugReport)) + 1

\* C25: in the description of a created issue the i-th attachment entry
\* carries the name of the i-th attachment of the request and the URL that
\* the upload of that attachment returned: exactly one upload stored the file
\* uploaded for attachment i, and its asset is the one of the entry, in
\* whatever order the uploads completed; the entry is an inline image when the
\* type of the attachment starts with image/ and a link otherwise.
C25_EntriesInAttachmentOrder ==
    \A k \in 1..Len(issues) :
        LET d == issues[k].description
            attachments == RequestAttachments
        IN  Len(attachments) > 0 =>
              /\ Len(d) = EntriesOffset + Len(attachments) + 2
              /\ \A i \in 1..Len(attachments) :
                    LET entry == d[EntriesOffset + i]
                        stored == {u \in 1..Len(uploads) :
                                      uploads[u].asset = entry.url.asset}
                    IN  /\ entry.kind \in {"image", "link"}
                        /\ entry.name = attachments[i].name
                        /\ entry.kind = "image"
                              <=> IsPrefix(Prefix_image, attachments[i].type)
                        /\ entry.url = tasks[i].url
                        /\ tasks[i].file = attachments[i]
                        /\ Cardinality(stored) = 1
                        /\ \A u \in stored : uploads[u].file = tasks[i].uploadFile
                        /\ \A j \in 1..Len(attachments) :
                              j # i => d[EntriesOffset + j].url.asset # entry.url.asset

\* an issue with two attachments whose second upload completed first: a link
\* for the watch logs, then an inline image
C25_Witness ==
    /\ Len(issues) = 1
    /\ Len(uploads) = 2
    /\ uploads[1].asset = 2
    /\ uploads[1].file.name # uploads[2].file.name
    /\ issues[1].description[EntriesOffset + 1].kind = "link"
    /\ issues[1].description[EntriesOffset + 2].kind = "image"

Failed(t) == tasks[t].stage = "rejected"

\* C26: as soon as the processing of one attachment has failed the request is
\* answered with an error and no issue is ever created for it, while the other
\* attachments are neither awaited nor cancelled: an upload that completes
\* after the answer belongs to a request one of whose attachments failed, and
\* the asset it stored is referenced by no issue.
C26_FailureLeavesUploads ==
    /\ (\E t \in DOMAIN tasks : Failed(t)) =>
          /\ hpc = "done"
          /\ response.status \in {400, 500}
          /\ response.body.kind = "error"
          /\ issues = <<>>
    /\ \A u \in 1..Len(uploads) :
          uploads[u].answered =>
              /\ \E t \in DOMAIN tasks : Failed(t) /\ t # uploads[u].asset
              /\ tasks[uploads[u].asset].stage = "resolved"
              /\ issues = <<>>

\* the video was refused for its size and the request answered; the watch
\* logs were dehashed and uploaded afterwards, and no issue exists
C26_Witness ==
    /\ Len(tasks) = 2
    /\ Failed(1)
    /\ tasks[1].error.message = "Video file is too large"
    /\ tasks[2].stage = "resolved"
    /\ tasks[2].inv.pc = "done"
    /\ Len(uploads) = 1
    /\ uploads[1].answered
    /\ hpc = "done"
    /\ response.status = 500
    /\ issues = <<>>

\* C27: the cache is keyed by the build identifier as captured, case included.
\* The keys of the cache are exactly the identifiers of the calls that loaded
\* a dictionary; a generation is served from the cache only when an earlier
\* generation's call loaded a dictionary for the very same identifier, and
\* otherwise a generation with an identifier gets a call of its own, made for
\* the identifier as captured, also when the cache holds an identifier that
\* differs from it in letter case only; two such calls resolve to the same
\* stored dictionary.
C27_CacheKeyedAsCaptured ==
    /\ DOMAIN dictCache =
          {calls[i].buildId : i \in {j \in 1..Len(calls) : calls[j].outcome = "loaded"}}
    /\ \A k \in 1..Len(segments) :
          LET id == FirstBuildId(generations[k])
              own == {i \in 1..Len(calls) : calls[i].generation = k}
          IN  /\ segments[k].how = "cached" =>
                    /\ own = {}
                    /\ \E j \in 1..Len(calls) :
                          /\ calls[j].generation < k
                          /\ calls[j].buildId = id
                          /\ calls[j].outcome = "loaded"
              /\ segments[k].how \in {"loaded", "noDictionary"} =>
                    /\ own # {}
                    /\ \A i \in own : calls[i].buildId = id
                    /\ \A j \in 1..Len(calls) :
                          (calls[j].generation < k /\ calls[j].buildId = id)
                              => calls[j].outcome # "loaded"
    /\ \A i, j \in 1..Len(calls) :
          (/\ calls[i].outcome = "loaded"
           /\ calls[j].outcome = "loaded"
           /\ toLowerCase(calls[i].buildId) = toLowerCase(calls[j].buildId))
              => dictCache[calls[i].buildId] = dictCache[calls[j].buildId]

\* abc123 and ABC123 each had their call and each is a key of the cache, with
\* the same dictionary
C27_Witness ==
    /\ Len(calls) = 2
    /\ calls[1].buildId # calls[2].buildId
    /\ toLowerCase(calls[1].buildId) = toLowerCase(calls[2].buildId)
    /\ calls[1].outcome = "loaded"
    /\ calls[2].outcome = "loaded"
    /\ Cardinality(DOMAIN dictCache) = 2
    /\ dictCache[calls[1].buildId] = dictCache[calls[2].buildId]
    /\ Len(segments) = 2

\* the marker lines among the lines read so far
MarkersRead == {k \in 1..(li - 1) : k <= Len(lines) /\ matchGeneration(lines[k]) # <<>>}

\* the integer N of the marker text `=== Generation: N ===`
MarkerNumber(marker) ==
    DigitsValue(SubSeq(marker, Len(GenPrefix) + 1, Len(marker) - Len(GenSuffix)))

\* C28: once splitGenerations has read a marker line, its current generation
\* number is the integer of the last marker line read.
C28_GenerationNumberParsed ==
    (pc = "lines" /\ MarkersRead # {}) =>
        LET last == CHOOSE k \in MarkersRead : \A j \in MarkersRead : j <= k
        IN  currentGenerationNumber =
                [kind |-> "number",
                 value |-> MarkerNumber(matchGeneration(lines[last])[1])]

====
